---- MODULE Spec2Model ----
(***************************************************************************)
(* Model of data_loader.py (the offset projector, the geocoder, the CSV     *)
(* loader and writer, the backfill, the shape builder and                  *)
(* build_geo_from_rows), of the main script that runs them, filters the    *)
(* places by genre and collects the legend colors (main.py), and of the    *)
(* marker grouping and label anchoring of the map (map_view.py).           *)
(*                                                                         *)
(* Number representation.  Python floats are modelled in fixed point:      *)
(*   degrees of latitude / longitude : integers in units of 1e-7 degree    *)
(*                                     ("E7": 35.000 deg = 350000000)      *)
(*   meters                          : integers in centimeters             *)
(*   cos / sin values                : integers in units of 1e-4           *)
(*   a rotation angle                : [neg, ip, fp] = sign, integer part  *)
(*                                     and the first 7 decimals            *)
(* Divisions truncate toward zero.  All products go through MulDiv, which  *)
(* keeps every intermediate value inside 32 bits.                          *)
(*                                                                         *)
(* Text is a sequence of one-character strings, so that the regular        *)
(* expressions and the substring tests of the source are computed on the   *)
(* characters.  Python's None is the empty sequence, a present value v is  *)
(* the one-element sequence <<v>>.                                         *)
(***************************************************************************)
EXTENDS Integers, Sequences, FiniteSets, TLC

VARIABLES
    rows,       \* the rows in memory (main.py: rows)
    pc,         \* the position of the script, or of the caller of a function
    geo,        \* None, or Some of the outcome of build_geo_from_rows
    view,       \* None, or Some of the page drawn: the places and shapes handed
                \* to the map, its markers and labels, and the legend colors
    csv,        \* the records of places.csv
    cache,      \* the memo of _geocode: address -> result
    requests,   \* the addresses sent to the geocoding service, in order
    calls,      \* the calls of _geocode so far: <<address, result>>, in order
    last,       \* None, or Some of the last function call made and its result
    runs,       \* the number of runs of the script begun
    session     \* None, or Some of st.session_state: show_shapes, selected_genres

vars == <<rows, pc, geo, view, csv, cache, requests, calls, last, runs, session>>

----------------------------------------------------------------------------
(* Optional values *)

None == <<>>

Some(v) == <<v>>

----------------------------------------------------------------------------
(* Fixed-point arithmetic *)

Abs(x) == IF x < 0 THEN -x ELSE x

Sgn(x) == IF x < 0 THEN -1 ELSE 1

Max2(a, b) == IF a >= b THEN a ELSE b

Min2(a, b) == IF a <= b THEN a ELSE b

\* a * b / c for a >= 0, b >= 0, c > 0, truncated, without overflowing 32 bits
MulDivNat(a, b, c) == (a \div c) * b + ((a % c) * b) \div c

\* a * b / c truncated toward zero; c # 0
MulDiv(a, b, c) == Sgn(a) * Sgn(b) * Sgn(c) * MulDivNat(Abs(a), Abs(b), Abs(c))

\* (a + b) / 2 without forming a + b
Half2(a, b) ==
    LET q == (a \div 2) + (b \div 2)
        r == (a % 2) + (b % 2)
    IN  q + (r \div 2)

\* one degree of latitude is 111320 m (data_loader.py:54, 227, 251)
M_PER_DEG_LAT == 111320

\* centimeters spanned by d E7-degrees of latitude: d * 1e-7 * 111320 * 100
DegToCm(d) == MulDiv(d, M_PER_DEG_LAT \div 8, 100000 \div 8)

\* E7-degrees of latitude spanned by m centimeters: m / 100 / 111320 * 1e7
CmToDeg(m) == MulDiv(m, 100000 \div 8, M_PER_DEG_LAT \div 8)

\* unit of the cos / sin values
TRIG_ONE == 10000

\* math.radians on milli-degrees, result in 1e-4 rad
RadE4(mdeg) == MulDiv(mdeg, 17453, 100000)

\* cos x for 0 <= x <= pi/2 (x in 1e-4 rad): the Taylor polynomial to x^8
CosTaylor(x) ==
    LET x2 == MulDiv(x, x, TRIG_ONE)
        x4 == MulDiv(x2, x2, TRIG_ONE)
        x6 == MulDiv(x4, x2, TRIG_ONE)
        x8 == MulDiv(x4, x4, TRIG_ONE)
    IN  TRIG_ONE - (x2 \div 2) + (x4 \div 24) - (x6 \div 720) + (x8 \div 40320)

\* math.cos(math.radians(.)) of an angle in milli-degrees, any sign and size
CosMdeg(mdeg) ==
    LET a == Abs(mdeg) % 360000
        b == IF a > 180000 THEN 360000 - a ELSE a
    IN  IF b <= 90000 THEN CosTaylor(RadE4(b))
        ELSE -CosTaylor(RadE4(180000 - b))

\* math.sin(math.radians(.)) of an angle in milli-degrees
SinMdeg(mdeg) == CosMdeg(mdeg - 90000)

\* math.cos(math.radians(lat)) of a latitude in E7-degrees
CosLat(latE7) == CosMdeg(latE7 \div 10000)

----------------------------------------------------------------------------
(* Text *)

\* The non-ASCII characters of the source, each one character of text, named
\* by its code point: the row-name tags (data_loader.py:151-152), the shape
\* words (209-210) and the unit of the angle (204).
CH_HIDARI == "U+5DE6"

CH_UE == "U+4E0A"

CH_MIGI == "U+53F3"

CH_SHITA == "U+4E0B"

CH_SHI == "U+56DB"

CH_KAKU == "U+89D2"

CH_DA == "U+6955"

CH_EN == "U+5186"

CH_DO == "U+5EA6"

Digits == {"0", "1", "2", "3", "4", "5", "6", "7", "8", "9"}

DigitVal(c) ==
    CASE c = "0" -> 0 [] c = "1" -> 1 [] c = "2" -> 2 [] c = "3" -> 3
      [] c = "4" -> 4 [] c = "5" -> 5 [] c = "6" -> 6 [] c = "7" -> 7
      [] c = "8" -> 8 [] c = "9" -> 9

IsSpace(c) == c \in {" ", "\t"}

UpperCase == <<"A", "B", "C", "D", "E", "F", "G", "H", "I", "J", "K", "L", "M",
               "N", "O", "P", "Q", "R", "S", "T", "U", "V", "W", "X", "Y", "Z">>

LowerCase == <<"a", "b", "c", "d", "e", "f", "g", "h", "i", "j", "k", "l", "m",
               "n", "o", "p", "q", "r", "s", "t", "u", "v", "w", "x", "y", "z">>

\* str.lower on one character
LowerChar(c) ==
    IF \E i \in 1..Len(UpperCase) : UpperCase[i] = c
    THEN LowerCase[CHOOSE i \in 1..Len(UpperCase) : UpperCase[i] = c]
    ELSE c

\* str.lower
Lower(s) == [i \in 1..Len(s) |-> LowerChar(s[i])]

\* str.strip
Strip(s) ==
    LET keep == {i \in 1..Len(s) : ~IsSpace(s[i])}
    IN  IF keep = {} THEN <<>>
        ELSE LET lo == CHOOSE i \in keep : \A j \in keep : i <= j
                 hi == CHOOSE i \in keep : \A j \in keep : i >= j
             IN  SubSeq(s, lo, hi)

\* sub in s
Contains(s, sub) ==
    \E i \in 1..(Len(s) - Len(sub) + 1) : SubSeq(s, i, i + Len(sub) - 1) = sub

\* int(key) of a string of digits, kept below 32 bits by the key lengths used
RECURSIVE IntOf(_)
IntOf(s) ==
    IF s = <<>> THEN 0
    ELSE 10 * IntOf(SubSeq(s, 1, Len(s) - 1)) + DigitVal(s[Len(s)])

\* s < t in Python's string order, for strings of digits
RECURSIVE StrLess(_, _)
StrLess(s, t) ==
    IF t = <<>> THEN FALSE
    ELSE IF s = <<>> THEN TRUE
    ELSE IF s[1] # t[1] THEN DigitVal(s[1]) < DigitVal(t[1])
    ELSE StrLess(Tail(s), Tail(t))

\* sorted(S) for a set of strings of digits
RECURSIVE Sorted(_)
Sorted(S) ==
    IF S = {} THEN <<>>
    ELSE LET m == CHOOSE x \in S : \A y \in S \ {x} : StrLess(x, y)
         IN  <<m>> \o Sorted(S \ {m})

----------------------------------------------------------------------------
(* Offset projector *)

\* _meters_to_deg: <<dlat, dlng>> in E7-degrees for offsets in centimeters
meters_to_deg(lat_deg, north_m, east_m) ==
    LET cos_lat == CosLat(lat_deg)
        dlat    == CmToDeg(north_m)
        dlng    == IF cos_lat # 0
                   THEN MulDiv(CmToDeg(east_m), TRIG_ONE, cos_lat)
                   ELSE 0
    IN  <<dlat, dlng>>

\* _apply_offset_if_possible with an absent coordinate read as 0.0
apply_offset_MissingAsZero(lat, lng, north_m, east_m) ==
    LET la == IF lat = None THEN 0 ELSE lat[1]
        lo == IF lng = None THEN 0 ELSE lng[1]
        d  == meters_to_deg(la, north_m, east_m)
    IN  Some([lat |-> la + d[1], lng |-> lo + d[2]])

\* _apply_offset_if_possible: None, or Some of the adjusted point
apply_offset_if_possible(lat, lng, north_m, east_m) ==
    IF lat = None \/ lng = None THEN None
    ELSE LET d == meters_to_deg(lat[1], north_m, east_m)
         IN  Some([lat |-> lat[1] + d[1], lng |-> lng[1] + d[2]])

\* _apply_offset_if_possible on the fields of one row
RowAdj(r) ==
    apply_offset_if_possible(r.lat, r.lng, r.north_offset_m, r.east_offset_m)

----------------------------------------------------------------------------
(* Row-name patterns and the shape specification text *)

\* ^<c1><c2>(\d+)$ : None, or Some of the captured digits
MatchTagged(name, c1, c2) ==
    IF /\ Len(name) >= 3
       /\ name[1] = c1
       /\ name[2] = c2
       /\ \A i \in 3..Len(name) : name[i] \in Digits
    THEN Some(SubSeq(name, 3, Len(name)))
    ELSE None

\* _SHAPE_UL_RE.match
SHAPE_UL_RE(name) == MatchTagged(name, CH_HIDARI, CH_UE)

\* _SHAPE_LR_RE.match
SHAPE_LR_RE(name) == MatchTagged(name, CH_MIGI, CH_SHITA)

\* the last position of the run of digits that starts at p
DigitRunEnd(s, p) ==
    CHOOSE q \in p..Len(s) :
        /\ \A i \in p..q : s[i] \in Digits
        /\ (q = Len(s) \/ s[q + 1] \notin Digits)

\* the first seven decimals of a string of decimals, as an integer
FracE7(d) ==
    LET n == Min2(Len(d), 7)
        RECURSIVE Pad(_, _)
        Pad(v, k) == IF k = 0 THEN v ELSE Pad(10 * v, k - 1)
    IN  Pad(IntOf(SubSeq(d, 1, n)), 7 - n)

RotZero == [neg |-> FALSE, ip |-> 0, fp |-> 0]

\* rot_deg: re.search(r'(?:<kaiten>|rotate)?\s*([\-]?\d+(?:\.\d+)?)\s*(?:<do>|<degree sign>|deg)?')
\* and float(m.group(1)).  The leftmost match takes the first digit of the
\* text, the minus sign right before it if there is one, the whole run of
\* digits, and a point followed by digits.  No digit: no match, rot_deg = 0.
ParseRot(shape_spec) ==
    LET ds == {i \in 1..Len(shape_spec) : shape_spec[i] \in Digits}
    IN  IF ds = {} THEN RotZero
        ELSE LET p == CHOOSE i \in ds : \A j \in ds : i <= j
                 q == DigitRunEnd(shape_spec, p)
                 hasFrac == /\ q + 2 <= Len(shape_spec)
                            /\ shape_spec[q + 1] = "."
                            /\ shape_spec[q + 2] \in Digits
             IN  [neg |-> p > 1 /\ shape_spec[p - 1] = "-",
                  ip  |-> IntOf(SubSeq(shape_spec, p, q)),
                  fp  |-> IF hasFrac
                          THEN FracE7(SubSeq(shape_spec, q + 2,
                                             DigitRunEnd(shape_spec, q + 2)))
                          ELSE 0]

\* the rotation test on the integer part of the angle only
RotIsZero_IntegerPart(rot) == rot.ip = 0

\* abs(rot_deg) < 1e-6
RotIsZero(rot) == rot.ip = 0 /\ rot.fp < 10

\* the angle in milli-degrees, reduced modulo a full turn
RotMdeg(rot) ==
    (IF rot.neg THEN -1 ELSE 1) * ((rot.ip % 360) * 1000 + rot.fp \div 10000)

\* is_rect
IsRectSpec(shape_spec) ==
    \/ Contains(shape_spec, <<CH_SHI, CH_KAKU>>)
    \/ Contains(Lower(shape_spec), <<"r", "e", "c", "t">>)
    \/ Contains(Lower(shape_spec), <<"r", "e", "c", "t", "a", "n", "g", "l", "e">>)

\* is_ellipse without the lower-casing of the text
IsEllipseSpec_CaseSensitive(shape_spec) ==
    \/ Contains(shape_spec, <<CH_DA, CH_EN>>)
    \/ Contains(shape_spec, <<"e", "l", "l", "i", "p", "s", "e">>)

\* is_ellipse
IsEllipseSpec(shape_spec) ==
    \/ Contains(shape_spec, <<CH_DA, CH_EN>>)
    \/ Contains(Lower(shape_spec), <<"e", "l", "l", "i", "p", "s", "e">>)

\* _rotate_east_north turning the other way
rotate_east_north_Clockwise(east_m, north_m, rot) ==
    LET c == CosMdeg(RotMdeg(rot))
        s == SinMdeg(RotMdeg(rot))
    IN  <<MulDiv(east_m, c, TRIG_ONE) + MulDiv(north_m, s, TRIG_ONE),
          MulDiv(north_m, c, TRIG_ONE) - MulDiv(east_m, s, TRIG_ONE)>>

\* _rotate_east_north: <<xr, yr>> in centimeters
rotate_east_north(east_m, north_m, rot) ==
    LET c == CosMdeg(RotMdeg(rot))
        s == SinMdeg(RotMdeg(rot))
    IN  <<MulDiv(east_m, c, TRIG_ONE) - MulDiv(north_m, s, TRIG_ONE),
          MulDiv(east_m, s, TRIG_ONE) + MulDiv(north_m, c, TRIG_ONE)>>

----------------------------------------------------------------------------
(* Shape builder *)

\* max(1.0, ...) of the radii and half extents: one meter, in centimeters
MIN_RADIUS_CM == 100

\* labelInsetM of a rect, in meters
RECT_INSET_M == 30

\* labelInsetM of an ellipse, in meters
ELLIPSE_INSET_M == 60

\* inset of the label of a rotated rectangle, in meters
POLY_INSET_M == 40

\* len(palette)
PALETTE_LEN == 5

\* ul_map / lr_map from the match m[i] of each row's name: for each captured
\* key the last row whose name matches
TagMap(rs, m) ==
    LET hit == {i \in 1..Len(rs) : m[i] # None}
        ks  == {m[i][1] : i \in hit}
    IN  [k \in ks |->
            rs[CHOOSE i \in hit :
                  /\ m[i] = Some(k)
                  /\ \A j \in hit : m[j] = Some(k) => j <= i]]

\* the warning of a pair with a missing member (data_loader.py:184)
WarnMissingMember(key) == [key |-> key, kind |-> "missing_member"]

\* the warning of a pair with unset coordinates (data_loader.py:192)
WarnUnsetCoords(key) == [key |-> key, kind |-> "unset_coords"]

\* PairBounds with the upper-left row trusted to be the north-west corner
PairBounds_AsNamed(ul_adj, lr_adj) ==
    [north |-> ul_adj.lat, south |-> lr_adj.lat,
     west  |-> ul_adj.lng, east  |-> lr_adj.lng]

\* the four bounds of a pair of adjusted points
PairBounds(ul_adj, lr_adj) ==
    [north |-> Max2(ul_adj.lat, lr_adj.lat),
     south |-> Min2(ul_adj.lat, lr_adj.lat),
     west  |-> Min2(ul_adj.lng, lr_adj.lng),
     east  |-> Max2(ul_adj.lng, lr_adj.lng)]

\* the north radius without the clamp to one meter
HalfNorthCm_NoClamp(b) == DegToCm(Abs(b.north - b.south)) \div 2

\* max(1.0, abs(north - south) * 0.5 * m_per_deg_lat), in centimeters
HalfNorthCm(b) ==
    Max2(MIN_RADIUS_CM, DegToCm(Abs(b.north - b.south)) \div 2)

\* max(1.0, abs(east - west) * 0.5 * m_per_deg_lng), in centimeters
HalfEastCm(b, center_lat) ==
    Max2(MIN_RADIUS_CM,
         MulDiv(DegToCm(Abs(b.east - b.west)) \div 2, CosLat(center_lat), TRIG_ONE))

\* center + _meters_to_deg(center_lat, north_m, east_m)
LocalToLatLng(center_lat, center_lng, east_m, north_m) ==
    LET d == meters_to_deg(center_lat, north_m, east_m)
    IN  [lat |-> center_lat + d[1], lng |-> center_lng + d[2]]

\* the body of the loop of _build_shapes for a complete pair with coordinates:
\* the shape appended for it
ShapeOfPair(key, ul, lr, ul_adj, lr_adj) ==
    LET b          == PairBounds(ul_adj, lr_adj)
        shape_spec == Strip(ul.website)
        rot_deg    == ParseRot(shape_spec)
        is_ellipse == IsEllipseSpec(shape_spec)
        pal        == IntOf(key) % PALETTE_LEN
        label_text == Strip(ul.desc)
        sub_text   == Strip(lr.desc)
        center_lat == Half2(b.north, b.south)
        center_lng == Half2(b.east, b.west)
        half_h_m   == HalfNorthCm(b)
        half_w_m   == HalfEastCm(b, center_lat)
        inset      == POLY_INSET_M * 100
        corners_local == << <<half_w_m, half_h_m>>, <<-half_w_m, half_h_m>>,
                            <<-half_w_m, -half_h_m>>, <<half_w_m, -half_h_m>> >>
        Rotated(ex, ny) ==
            LET xy == rotate_east_north(ex, ny, rot_deg)
            IN  LocalToLatLng(center_lat, center_lng, xy[1], xy[2])
    IN  IF is_ellipse
        THEN [type |-> "ellipse",
              center |-> [lat |-> center_lat, lng |-> center_lng],
              radiusNorthM |-> half_h_m,
              radiusEastM |-> half_w_m,
              rotationDeg |-> rot_deg,
              pal |-> pal, label |-> label_text, sub |-> sub_text,
              labelAnchor |-> "bottom-right", labelInsetM |-> ELLIPSE_INSET_M]
        ELSE IF RotIsZero(rot_deg)
        THEN [type |-> "rect",
              north |-> b.north, south |-> b.south,
              east |-> b.east, west |-> b.west,
              pal |-> pal, label |-> label_text, sub |-> sub_text,
              labelAnchor |-> "bottom-right", labelInsetM |-> RECT_INSET_M]
        ELSE [type |-> "poly",
              paths |-> [i \in 1..4 |->
                            Rotated(corners_local[i][1], corners_local[i][2])],
              pal |-> pal, label |-> label_text, sub |-> sub_text,
              labelPos |-> Rotated(half_w_m - inset, -half_h_m + inset)]

\* the loop of _build_shapes over the sorted keys, with its two accumulators
RECURSIVE ShapeLoop(_, _, _, _, _)
ShapeLoop(keys, ul_map, lr_map, shapes, warnings) ==
    IF keys = <<>> THEN [shapes |-> shapes, warnings |-> warnings]
    ELSE LET key == Head(keys)
         IN  IF key \notin DOMAIN ul_map \/ key \notin DOMAIN lr_map
             THEN ShapeLoop(Tail(keys), ul_map, lr_map, shapes,
                            Append(warnings, WarnMissingMember(key)))
             ELSE LET ul     == ul_map[key]
                      lr     == lr_map[key]
                      ul_adj == RowAdj(ul)
                      lr_adj == RowAdj(lr)
                  IN  IF ul_adj = None \/ lr_adj = None
                      THEN ShapeLoop(Tail(keys), ul_map, lr_map, shapes,
                                     Append(warnings, WarnUnsetCoords(key)))
                      ELSE ShapeLoop(Tail(keys), ul_map, lr_map,
                                     Append(shapes,
                                            ShapeOfPair(key, ul, lr,
                                                        ul_adj[1], lr_adj[1])),
                                     warnings)

\* build_shapes with the keys of the lower-right map forgotten in the loop
build_shapes_UlKeysOnly(rs) ==
    LET ul_map == TagMap(rs, [i \in 1..Len(rs) |-> SHAPE_UL_RE(rs[i].raw_name)])
        lr_map == TagMap(rs, [i \in 1..Len(rs) |-> SHAPE_LR_RE(rs[i].raw_name)])
    IN  ShapeLoop(Sorted(DOMAIN ul_map), ul_map, lr_map, <<>>, <<>>)

\* _build_shapes: [shapes, warnings]
build_shapes(rs) ==
    LET ul_map == TagMap(rs, [i \in 1..Len(rs) |-> SHAPE_UL_RE(rs[i].raw_name)])
        lr_map == TagMap(rs, [i \in 1..Len(rs) |-> SHAPE_LR_RE(rs[i].raw_name)])
    IN  ShapeLoop(Sorted(DOMAIN ul_map \cup DOMAIN lr_map),
                  ul_map, lr_map, <<>>, <<>>)

----------------------------------------------------------------------------
(* build_geo_from_rows *)

\* the range test on the longitude only
InRange_LngOnly(p) == -1800000000 <= p.lng /\ p.lng <= 1800000000

\* -90 <= lat <= 90 and -180 <= lng <= 180
InRange(p) ==
    /\ -900000000 <= p.lat /\ p.lat <= 900000000
    /\ -1800000000 <= p.lng /\ p.lng <= 1800000000

\* a row whose name matches one of the two shape patterns
IsShapeRow(r) == SHAPE_UL_RE(r.raw_name) # None \/ SHAPE_LR_RE(r.raw_name) # None

\* the entry of places for a row and its adjusted point
PlaceOf(r, adj) ==
    [name |-> IF r.raw_name # <<>> THEN r.raw_name
              ELSE <<"(", "n", "o", " ", "n", "a", "m", "e", ")">>,
     website |-> r.website, desc |-> r.desc,
     color |-> r.color, genre |-> r.genre,
     lat |-> adj.lat, lng |-> adj.lng]

\* the loop over other_rows with a shape row counted and, when it has
\* coordinates in range, emitted as a place as well
RECURSIVE PlaceLoop_ShapeRowsKept(_, _, _, _, _)
PlaceLoop_ShapeRowsKept(rs, places, place_warnings, skipped_missing, shape_rows_count) ==
    IF rs = <<>>
    THEN [places |-> places, place_warnings |-> place_warnings,
          skipped_missing |-> skipped_missing,
          shape_rows_count |-> shape_rows_count]
    ELSE LET r   == Head(rs)
             adj == RowAdj(r)
             cnt == IF IsShapeRow(r) THEN 1 ELSE 0
         IN  IF adj = None
             THEN PlaceLoop_ShapeRowsKept(Tail(rs), places, place_warnings,
                                          skipped_missing + 1 - cnt,
                                          shape_rows_count + cnt)
             ELSE IF ~InRange(adj[1])
             THEN PlaceLoop_ShapeRowsKept(Tail(rs), places, place_warnings,
                                          skipped_missing + 1 - cnt,
                                          shape_rows_count + cnt)
             ELSE PlaceLoop_ShapeRowsKept(Tail(rs), Append(places, PlaceOf(r, adj[1])),
                                          place_warnings, skipped_missing,
                                          shape_rows_count + cnt)

\* the loop over other_rows, with its accumulators
RECURSIVE PlaceLoop(_, _, _, _, _)
PlaceLoop(rs, places, place_warnings, skipped_missing, shape_rows_count) ==
    IF rs = <<>>
    THEN [places |-> places, place_warnings |-> place_warnings,
          skipped_missing |-> skipped_missing,
          shape_rows_count |-> shape_rows_count]
    ELSE LET r   == Head(rs)
             adj == RowAdj(r)
         IN  IF IsShapeRow(r)
             THEN PlaceLoop(Tail(rs), places, place_warnings,
                            skipped_missing, shape_rows_count + 1)
             ELSE IF adj = None
             THEN PlaceLoop(Tail(rs), places, place_warnings,
                            skipped_missing + 1, shape_rows_count)
             ELSE IF ~InRange(adj[1])
             THEN PlaceLoop(Tail(rs), places, place_warnings,
                            skipped_missing + 1, shape_rows_count)
             ELSE PlaceLoop(Tail(rs), Append(places, PlaceOf(r, adj[1])),
                            place_warnings, skipped_missing, shape_rows_count)

\* the end of build_geo_from_rows (data_loader.py:323-325, 361-381): the
\* exception for an unset map center, or the dictionary returned
GeoOf(map_center, pin_center, rows_total, built, looped) ==
    IF map_center = None
    THEN [status |-> "raise", error |-> "map_center_unset"]
    ELSE [status |-> "ok",
          map_center |-> map_center[1],
          pin_center |-> pin_center,
          places |-> looped.places,
          shapes |-> built.shapes,
          shape_warnings |-> built.warnings,
          place_warnings |-> looped.place_warnings,
          place_stats |->
              [rows_total |-> rows_total,
               shape_rows |-> looped.shape_rows_count,
               places_kept |-> Len(looped.places),
               skipped_missing |-> looped.skipped_missing]]

\* build_geo_from_rows with every row, the first two included, handed to
\* _build_shapes
build_geo_ShapesFromAllRows(rs) ==
    IF Len(rs) < 2
    THEN [status |-> "raise", error |-> "insufficient_rows"]
    ELSE LET other_rows == IF Len(rs) >= 3 THEN SubSeq(rs, 3, Len(rs)) ELSE <<>>
             map_center == RowAdj(rs[1])
             built      == build_shapes(rs)
             looped     == PlaceLoop(other_rows, <<>>, <<>>, 0, 0)
         IN  IF map_center = None
             THEN [status |-> "raise", error |-> "map_center_unset"]
             ELSE [status |-> "ok",
                   map_center |-> map_center[1],
                   pin_center |-> RowAdj(rs[2]),
                   places |-> looped.places,
                   shapes |-> built.shapes,
                   shape_warnings |-> built.warnings,
                   place_warnings |-> looped.place_warnings,
                   place_stats |->
                       [rows_total |-> Len(other_rows),
                        shape_rows |-> looped.shape_rows_count,
                        places_kept |-> Len(looped.places),
                        skipped_missing |-> looped.skipped_missing]]

\* build_geo_from_rows: the dictionary returned, or the exception raised
build_geo_from_rows(rs) ==
    IF Len(rs) < 2
    THEN [status |-> "raise", error |-> "insufficient_rows"]
    ELSE LET map_center_row == rs[1]
             pin_center_row == rs[2]
             other_rows     == IF Len(rs) >= 3 THEN SubSeq(rs, 3, Len(rs)) ELSE <<>>
         IN  GeoOf(RowAdj(map_center_row), RowAdj(pin_center_row),
                   Len(other_rows), build_shapes(other_rows),
                   PlaceLoop(other_rows, <<>>, <<>>, 0, 0))

----------------------------------------------------------------------------
(* places.csv: load_rows_from_csv and _save_rows_to_csv                    *)
(*                                                                         *)
(* A record of the file holds the text of each column; the columns price   *)
(* and name (a copy of raw_name) are carried through unchanged by the      *)
(* source and are left out.  Latitude and longitude texts are read to E7   *)
(* degrees, the offset texts to centimeters.                               *)

\* 10 ** n
RECURSIVE Pow10(_)
Pow10(n) == IF n = 0 THEN 1 ELSE 10 * Pow10(n - 1)

\* the first n decimals of a string of decimal digits, as an integer
FracDigits(d, n) ==
    LET k == Min2(Len(d), n)
    IN  IntOf(SubSeq(d, 1, k)) * Pow10(n - k)

\* float(v) for the plain decimal texts [+-]digits[.digits], scaled by 10**n:
\* None where float raises ValueError.  (Exponents, inf, nan and underscores,
\* which float also reads, are not among the texts of the files tried.)
ParseFloat(v, n) ==
    LET t    == Strip(v)
        sgn  == IF t # <<>> /\ t[1] \in {"-", "+"} THEN 1 ELSE 0
        body == SubSeq(t, sgn + 1, Len(t))
        dots == {i \in 1..Len(body) : body[i] = "."}
        dot  == IF dots = {} THEN Len(body) + 1
                ELSE CHOOSE i \in dots : \A j \in dots : i <= j
        ip   == SubSeq(body, 1, dot - 1)
        fp   == SubSeq(body, dot + 1, Len(body))
        ok   == /\ Cardinality(dots) <= 1
                /\ Len(ip) + Len(fp) >= 1
                /\ \A i \in 1..Len(ip) : ip[i] \in Digits
                /\ \A i \in 1..Len(fp) : fp[i] \in Digits
        mag  == IntOf(ip) * Pow10(n) + FracDigits(fp, n)
    IN  IF ~ok THEN None
        ELSE Some(IF sgn = 1 /\ t[1] = "-" THEN -mag ELSE mag)

\* _safe_float(v, default), scaled by 10**n
safe_float(v, default, n) ==
    IF Strip(v) = <<>> THEN default
    ELSE LET f == ParseFloat(v, n)
         IN  IF f = None THEN default ELSE f[1]

\* the row of one record of the file (data_loader.py:87-105)
RowOfRecord(rec) ==
    [raw_name |-> Strip(rec.name), desc |-> Strip(rec.desc),
     website |-> Strip(rec.url),
     color |-> Strip(rec.color), genre |-> Strip(rec.genre),
     address |-> Strip(rec.address),
     lat |-> IF Strip(rec.lat) = <<>> THEN None ELSE Some(safe_float(rec.lat, 0, 7)),
     lng |-> IF Strip(rec.lng) = <<>> THEN None ELSE Some(safe_float(rec.lng, 0, 7)),
     north_offset_m |-> safe_float(rec.north, 0, 2),
     east_offset_m |-> safe_float(rec.east, 0, 2)]

\* load_rows_from_csv, for a file that exists and has the required columns
load_rows_from_csv(file) == [i \in 1..Len(file) |-> RowOfRecord(file[i])]

\* the character of one digit
DigitChar(d) == CHOOSE c \in Digits : DigitVal(c) = d

\* str(n) of a natural number
RECURSIVE NatStr(_)
NatStr(n) ==
    IF n < 10 THEN <<DigitChar(n)>>
    ELSE Append(NatStr(n \div 10), DigitChar(n % 10))

\* the k digits of n < 10**k, with leading zeros
RECURSIVE PadStr(_, _)
PadStr(n, k) ==
    IF k = 0 THEN <<>> ELSE Append(PadStr(n \div 10, k - 1), DigitChar(n % 10))

\* f"{float(x):.7f}" of a number of E7 degrees
Format7f(x) ==
    (IF x < 0 THEN <<"-">> ELSE <<>>)
        \o NatStr(Abs(x) \div 10000000) \o <<".">> \o PadStr(Abs(x) % 10000000, 7)

\* str(x) of a float of meters held in centimeters, as csv.DictWriter writes
\* it: the shortest decimal, with at least one decimal
FloatStr(x) ==
    LET c == Abs(x) % 100
    IN  (IF x < 0 THEN <<"-">> ELSE <<>>)
            \o NatStr(Abs(x) \div 100) \o <<".">>
            \o (IF c % 10 = 0 THEN <<DigitChar(c \div 10)>> ELSE PadStr(c, 2))

\* _save_rows_to_csv with the offset-adjusted point written as the coordinates
save_rows_to_csv_Adjusted(rs) ==
    [i \in 1..Len(rs) |->
        LET r   == rs[i]
            adj == RowAdj(r)
        IN  [name |-> r.raw_name, genre |-> r.genre, color |-> r.color,
             desc |-> r.desc, url |-> r.website, address |-> r.address,
             lat |-> IF adj = None THEN <<>> ELSE Format7f(adj[1].lat),
             lng |-> IF adj = None THEN <<>> ELSE Format7f(adj[1].lng),
             north |-> FloatStr(r.north_offset_m),
             east |-> FloatStr(r.east_offset_m)]]

\* _save_rows_to_csv: the records written
save_rows_to_csv(rs) ==
    [i \in 1..Len(rs) |->
        LET r == rs[i]
        IN  [name |-> r.raw_name, genre |-> r.genre, color |-> r.color,
             desc |-> r.desc, url |-> r.website, address |-> r.address,
             lat |-> IF r.lat = None THEN <<>> ELSE Format7f(r.lat[1]),
             lng |-> IF r.lng = None THEN <<>> ELSE Format7f(r.lng[1]),
             north |-> FloatStr(r.north_offset_m),
             east |-> FloatStr(r.east_offset_m)]]

----------------------------------------------------------------------------
(* The geocoder and the backfill                                           *)
(*                                                                         *)
(* st.cache_data keeps one entry per argument tuple (address, api_key) for *)
(* the life of the server process; the script passes one api_key, so the   *)
(* memo is keyed by the address.  `answer` is what the service would give  *)
(* for the address if asked now: Some of a point for status OK with        *)
(* results, None for any other status, a timeout or an exception.          *)

\* the memo holds an entry for the address
CacheHas(c, address) == \E e \in c : e.address = address

\* the result the memo holds for the address
CacheGet(c, address) == (CHOOSE e \in c : e.address = address).result

\* the body of _geocode (data_loader.py:62-72): <<result, requests>>
geocode_body(address, answer, reqs) ==
    IF address = <<>> THEN <<None, reqs>>
    ELSE <<answer, Append(reqs, address)>>

\* _geocode with only the found results kept in the memo
geocode_FoundOnly(address, answer, g) ==
    IF CacheHas(g.cache, address)
    THEN [result |-> CacheGet(g.cache, address), cache |-> g.cache,
          requests |-> g.requests,
          calls |-> Append(g.calls, <<address, CacheGet(g.cache, address)>>)]
    ELSE LET out == geocode_body(address, answer, g.requests)
         IN  [result |-> out[1],
              cache |-> IF out[1] = None THEN g.cache
                        ELSE g.cache \cup {[address |-> address, result |-> out[1]]},
              requests |-> out[2],
              calls |-> Append(g.calls, <<address, out[1]>>)]

\* _geocode under @st.cache_data: the result, and the memo, the requests sent
\* and the calls made after the call
geocode(address, answer, g) ==
    IF CacheHas(g.cache, address)
    THEN [result |-> CacheGet(g.cache, address), cache |-> g.cache,
          requests |-> g.requests,
          calls |-> Append(g.calls, <<address, CacheGet(g.cache, address)>>)]
    ELSE LET out == geocode_body(address, answer, g.requests)
         IN  [result |-> out[1],
              cache |-> g.cache \cup {[address |-> address, result |-> out[1]]},
              requests |-> out[2],
              calls |-> Append(g.calls, <<address, out[1]>>)]

\* a row the backfill has to geocode (data_loader.py:133)
NeedsGeocode(r) == (r.lat = None \/ r.lng = None) /\ r.address # <<>>

\* the loop of backfill_missing_latlng_and_save from row i on
RECURSIVE BackfillLoop(_, _, _, _, _)
BackfillLoop(rs, i, answers, g, updated) ==
    IF i > Len(rs) THEN [rows |-> rs, g |-> g, updated |-> updated]
    ELSE IF ~NeedsGeocode(rs[i]) THEN BackfillLoop(rs, i + 1, answers, g, updated)
    ELSE LET base == geocode(rs[i].address, answers[rs[i].address], g)
             g2   == [cache |-> base.cache, requests |-> base.requests,
                      calls |-> base.calls]
         IN  IF base.result # None
             THEN BackfillLoop([rs EXCEPT ![i].lat = Some(base.result[1].lat),
                                          ![i].lng = Some(base.result[1].lng)],
                               i + 1, answers, g2, updated + 1)
             ELSE BackfillLoop(rs, i + 1, answers, g2, updated)

\* backfill_missing_latlng_and_save with the file written on every call
backfill_AlwaysSave(rs, file, answers, g) ==
    LET done == BackfillLoop(rs, 1, answers, g, 0)
    IN  [rows |-> done.rows, g |-> done.g, updated |-> done.updated,
         saved |-> TRUE, file |-> save_rows_to_csv(done.rows)]

\* backfill_missing_latlng_and_save: the rows and the file after the call, the
\* value returned, and whether the file was written
backfill_missing_latlng_and_save(rs, file, answers, g) ==
    LET done == BackfillLoop(rs, 1, answers, g, 0)
    IN  [rows |-> done.rows, g |-> done.g, updated |-> done.updated,
         saved |-> done.updated > 0,
         file |-> IF done.updated > 0 THEN save_rows_to_csv(done.rows) ELSE file]

\* missing_needed of the main script (main.py:82-85)
missing_needed(rs) ==
    Cardinality({i \in 1..Len(rs) :
                    (rs[i].lat = None \/ rs[i].lng = None) /\ Strip(rs[i].address) # <<>>})

----------------------------------------------------------------------------
(* The projector on every float                                            *)
(*                                                                         *)
(* A float is [kind |-> "finite", v |-> E7 degrees], or has kind "inf",    *)
(* "-inf" or "nan".  math.cos(math.radians(x)) is never 0.0 for a finite   *)
(* double x (at 90.0 it is 6.1e-17), so the quotient of _meters_to_deg is  *)
(* always taken: where the fixed-point cosine is 0 the quotient is 0 for   *)
(* east_m = 0 and beyond the fixed-point range ("huge") otherwise.         *)

Finite(v) == [kind |-> "finite", v |-> v]

\* math.cos raises ValueError (math domain error) on an infinity
math_cos_raises(x) == x.kind \in {"inf", "-inf"}

\* _meters_to_deg for any float lat_deg: the pair returned, or the exception
meters_to_deg_float(lat_deg, north_m, east_m) ==
    IF math_cos_raises(lat_deg)
    THEN [status |-> "raise", error |-> "ValueError"]
    ELSE IF lat_deg.kind = "nan"
    THEN [status |-> "ok", dlat |-> Finite(CmToDeg(north_m)), dlng |-> [kind |-> "nan"]]
    ELSE IF CosLat(lat_deg.v) = 0 /\ east_m # 0
    THEN [status |-> "ok", dlat |-> Finite(CmToDeg(north_m)), dlng |-> [kind |-> "huge"]]
    ELSE [status |-> "ok",
          dlat |-> Finite(meters_to_deg(lat_deg.v, north_m, east_m)[1]),
          dlng |-> Finite(meters_to_deg(lat_deg.v, north_m, east_m)[2])]

----------------------------------------------------------------------------
(* The map: marker groups and label anchors (map_view.py)                  *)

\* the value returned by metersToLatLngDelta, mPerDegLng being
\* 111320 * cos_lat
DeltaOver(cos_lat, northM, eastM) ==
    [dlat |-> CmToDeg(northM),
     dlng |-> IF cos_lat # 0 THEN MulDiv(CmToDeg(eastM), TRIG_ONE, cos_lat) ELSE 0]

\* metersToLatLngDelta, on finite arguments
metersToLatLngDelta(latDeg, northM, eastM) ==
    DeltaOver(CosLat(latDeg), northM, eastM)

\* lat += d.dlat; lng += d.dlng
MovedBy(lat, lng, d) == [lat |-> lat + d.dlat, lng |-> lng + d.dlng]

\* Number.prototype.toFixed(6): the sign of the number, then its magnitude
\* rounded to 6 decimals.  (An E7 value ending in 5 stands for a double just
\* above the tie.)
toFixed6(x) ==
    LET n == (Abs(x) + 5) \div 10
    IN  (IF x < 0 THEN <<"-">> ELSE <<>>)
            \o NatStr(n \div 1000000) \o <<".">> \o PadStr(n % 1000000, 6)

\* the key of a place in groupPlacesByLatLng
PlaceKey(p) == toFixed6(p.lat) \o <<",">> \o toFixed6(p.lng)

\* the loop of groupPlacesByLatLng from place i on: keys[j] is the key of
\* groups[j], and a group is the sequence of the indexes of its items
RECURSIVE GroupLoop(_, _, _, _)
GroupLoop(places, i, keys, groups) ==
    IF i > Len(places) THEN groups
    ELSE LET key == PlaceKey(places[i])
             at  == {j \in 1..Len(keys) : keys[j] = key}
         IN  IF at = {}
             THEN GroupLoop(places, i + 1, Append(keys, key), Append(groups, <<i>>))
             ELSE LET j == CHOOSE x \in at : TRUE
                  IN  GroupLoop(places, i + 1, keys,
                                [groups EXCEPT ![j] = Append(@, i)])

\* groupPlacesByLatLng(places, 6)
groupPlacesByLatLng(places) == GroupLoop(places, 1, <<>>, <<>>)

\* "#F59E0B"
COLOR_MIXED == <<"#", "F", "5", "9", "E", "0", "B">>

\* "#EF4444"
COLOR_DEFAULT == <<"#", "E", "F", "4", "4", "4", "4">>

\* Array.from(new Set(items.map(it => (it.color || "").trim()).filter(Boolean)))
RECURSIVE GroupColors(_, _, _)
GroupColors(places, items, colors) ==
    IF items = <<>> THEN colors
    ELSE LET c == Strip(places[Head(items)].color)
         IN  IF c = <<>> \/ \E k \in 1..Len(colors) : colors[k] = c
             THEN GroupColors(places, Tail(items), colors)
             ELSE GroupColors(places, Tail(items), Append(colors, c))

\* bg with a group of several items always in the mixed color
MarkerColor_SeveralIsMixed(places, items) ==
    IF Len(items) > 1 THEN COLOR_MIXED
    ELSE IF Len(GroupColors(places, items, <<>>)) = 1
    THEN GroupColors(places, items, <<>>)[1]
    ELSE COLOR_DEFAULT

\* bg of a group (map_view.py:150-151)
MarkerColor(places, items) ==
    LET colors == GroupColors(places, items, <<>>)
    IN  IF Len(colors) = 1 THEN colors[1]
        ELSE IF Len(items) > 1 THEN COLOR_MIXED
        ELSE COLOR_DEFAULT

\* one section of the popup: the name, the description and the link
PopupSection(p) == [name |-> p.name, desc |-> p.desc, website |-> p.website]

\* the marker drawn for one group
MarkerOf(places, items) ==
    [position |-> [lat |-> places[items[1]].lat, lng |-> places[items[1]].lng],
     items |-> items,
     color |-> MarkerColor(places, items),
     popup |-> [k \in 1..Len(items) |-> PopupSection(places[items[k]])]]

\* the markers of payload.places (map_view.py:146-201)
MarkersOf(places) ==
    LET groups == groupPlacesByLatLng(places)
    IN  [j \in 1..Len(groups) |-> MarkerOf(places, groups[j])]

\* a corner moved by metersToLatLngDelta(lat, northM, eastM), both in meters
InsetCorner(lat, lng, northM, eastM) ==
    MovedBy(lat, lng, metersToLatLngDelta(lat, northM * 100, eastM * 100))

\* rectAnchorLatLng(s, anchor, insetM), insetM in meters
rectAnchorLatLng(s, anchor, insetM) ==
    CASE anchor = "bottom-right" -> InsetCorner(s.south, s.east, insetM, -insetM)
      [] anchor = "top-left"     -> InsetCorner(s.north, s.west, -insetM, insetM)
      [] anchor = "top-right"    -> InsetCorner(s.north, s.east, -insetM, -insetM)
      [] anchor = "bottom-left"  -> InsetCorner(s.south, s.west, insetM, insetM)
      [] OTHER -> [lat |-> Half2(s.north, s.south), lng |-> Half2(s.east, s.west)]

\* the center moved by metersToLatLngDelta(c.lat, yr, xr), xy being <<xr, yr>>
EllipseAnchorAt(c, xy) ==
    MovedBy(c.lat, c.lng, metersToLatLngDelta(c.lat, xy[2], xy[1]))

\* ellipseAnchorLatLng(s, anchor, insetM), insetM in meters
ellipseAnchorLatLng(s, anchor, insetM) ==
    LET c        == s.center
        eastDir  == IF anchor \in {"bottom-right", "top-right"} THEN 1 ELSE -1
        northDir == IF anchor \in {"top-right", "top-left"} THEN 1 ELSE -1
        a        == Max2(0, s.radiusEastM - insetM * 100)
        b        == Max2(0, s.radiusNorthM - insetM * 100)
    IN  IF anchor \notin {"bottom-right", "top-right", "bottom-left", "top-left"}
        THEN [lat |-> c.lat, lng |-> c.lng]
        ELSE EllipseAnchorAt(c, rotate_east_north(eastDir * a, northDir * b,
                                                  s.rotationDeg))

\* the position of the label drawn for a shape, None for a shape without
\* label text (map_view.py:224-226, 240-255, 267-290, 306-320)
LabelOf(s) ==
    IF s.label = <<>> THEN None
    ELSE CASE s.type = "rect" ->
                Some(rectAnchorLatLng(s, s.labelAnchor, s.labelInsetM))
           [] s.type = "ellipse" ->
                Some(ellipseAnchorLatLng(s, s.labelAnchor, s.labelInsetM))
           [] s.type = "poly" -> Some(s.labelPos)

\* what initMap draws for the payload: the place markers, and for each shape
\* the position of its label
initMap(places, shapes) ==
    [markers |-> MarkersOf(places),
     labels |-> [j \in 1..Len(shapes) |-> LabelOf(shapes[j])]]

----------------------------------------------------------------------------
(* The page: the genre filter and the legend colors (main.py)              *)
(*                                                                         *)
(* all_genres and selected_genres are held as sets of tags: the script     *)
(* sorts all_genres for the options of the multiselect and turns           *)
(* selected_genres into a set before it filters (main.py:111, 121).        *)

\* the members of a sequence
Members(q) == {q[k] : k \in 1..Len(q)}

\* the full-width slash, the middle dot and the ideographic comma, ",", "|"
\* and the full-width bar (main.py:103)
GENRE_SEPS == {"U+FF0F", "U+30FB", "U+3001", ",", "|", "U+FF5C"}

\* the tag of a place without genre, in full-width brackets (main.py:102, 106)
GENRE_UNSET ==
    <<"U+FF08", "U+30B8", "U+30E3", "U+30F3", "U+30EB", "U+672A", "U+8A2D",
      "U+5B9A", "U+FF09">>

\* for sep in [...]: s = s.replace(sep, "/")
ReplaceSeps(s) == [i \in 1..Len(s) |-> IF s[i] \in GENRE_SEPS THEN "/" ELSE s[i]]

\* s.split("/"): piece is the piece being read, out the pieces before it
RECURSIVE SplitSlash(_, _, _)
SplitSlash(s, piece, out) ==
    IF s = <<>> THEN Append(out, piece)
    ELSE IF Head(s) = "/" THEN SplitSlash(Tail(s), <<>>, Append(out, piece))
    ELSE SplitSlash(Tail(s), Append(piece, Head(s)), out)

\* [t.strip() for t in pieces if t.strip()]
RECURSIVE StripTokens(_)
StripTokens(pieces) ==
    IF pieces = <<>> THEN <<>>
    ELSE IF Strip(Head(pieces)) = <<>> THEN StripTokens(Tail(pieces))
    ELSE <<Strip(Head(pieces))>> \o StripTokens(Tail(pieces))

\* tokens if tokens else [unset]
TokensOr(tokens) == IF tokens # <<>> THEN tokens ELSE <<GENRE_UNSET>>

\* split_genres (main.py:99-106)
split_genres(s) ==
    IF Strip(s) = <<>> THEN <<GENRE_UNSET>>
    ELSE TokensOr(StripTokens(SplitSlash(ReplaceSeps(Strip(s)), <<>>, <<>>)))

\* place_genres (main.py:108-109)
place_genres(p) == split_genres(p.genre)

\* {g for p in geo["places"] for g in place_genres(p)} (main.py:111)
all_genres(places) ==
    UNION {Members(place_genres(places[i])) : i \in 1..Len(places)}

\* [p for p in places if sel.intersection(place_genres(p))]
RECURSIVE KeepPlaces(_, _)
KeepPlaces(places, sel) ==
    IF places = <<>> THEN <<>>
    ELSE IF Members(place_genres(Head(places))) \cap sel # {}
    THEN <<Head(places)>> \o KeepPlaces(Tail(places), sel)
    ELSE KeepPlaces(Tail(places), sel)

\* the filter keeping a place only when every one of its tags is selected
RECURSIVE KeepPlaces_EveryTag(_, _)
KeepPlaces_EveryTag(places, sel) ==
    IF places = <<>> THEN <<>>
    ELSE IF Members(place_genres(Head(places))) \subseteq sel
    THEN <<Head(places)>> \o KeepPlaces_EveryTag(Tail(places), sel)
    ELSE KeepPlaces_EveryTag(Tail(places), sel)

\* places_for_view keeping a place only when every one of its tags is selected
places_for_view_EveryTag(places, selected_genres) ==
    IF selected_genres = {} THEN <<>> ELSE KeepPlaces_EveryTag(places, selected_genres)

\* places_for_view (main.py:121-122)
places_for_view(places, selected_genres) ==
    IF selected_genres = {} THEN <<>> ELSE KeepPlaces(places, selected_genres)

\* shapes_for_view (main.py:120)
shapes_for_view(shapes, show_shapes) == IF show_shapes THEN shapes ELSE <<>>

\* the characters of [0-9a-f]
HexLower == Digits \cup {"a", "b", "c", "d", "e", "f"}

\* re.sub(r"\s+", "", s)
RECURSIVE RemoveSpace(_)
RemoveSpace(s) ==
    IF s = <<>> THEN <<>>
    ELSE IF IsSpace(Head(s)) THEN RemoveSpace(Tail(s))
    ELSE <<Head(s)>> \o RemoveSpace(Tail(s))

\* "#ef4444"
LEGEND_DEFAULT == <<"#", "e", "f", "4", "4", "4", "4">>

\* "#f59e0b"
LEGEND_MIXED == <<"#", "f", "5", "9", "e", "0", "b">>

\* six hexadecimal digits get a "#" before them (main.py:165-166)
WithHash(s) ==
    IF Len(s) = 6 /\ \A i \in 1..Len(s) : s[i] \in HexLower THEN <<"#">> \o s ELSE s

\* _norm_color (main.py:159-167)
norm_color(c) ==
    IF Lower(Strip(c)) = <<>> THEN LEGEND_DEFAULT
    ELSE WithHash(RemoveSpace(Lower(Strip(c))))

\* round(x, 6) of a number of E7 degrees, in micro-degrees: -0.0 is 0.0.  (An
\* E7 value ending in 5 stands for a double just above the tie.)
round6(x) == IF x >= 0 THEN (x + 5) \div 10 ELSE -((5 - x) \div 10)

\* key = (round(p["lat"], 6), round(p["lng"], 6))  (main.py:176)
legend_key(p) == <<round6(p.lat), round6(p.lng)>>

\* groups[key]: the normalised colors of the places of one key, in order
RECURSIVE LegendGroup(_, _)
LegendGroup(places, key) ==
    IF places = <<>> THEN <<>>
    ELSE IF legend_key(Head(places)) = key
    THEN <<norm_color(Head(places).color)>> \o LegendGroup(Tail(places), key)
    ELSE LegendGroup(Tail(places), key)

\* len(cols) >= 2 and len(set(cols)) >= 2  (main.py:179)
IsMixedGroup(cols) == Len(cols) >= 2 /\ Cardinality(Members(cols)) >= 2

\* used_colors after main.py:170-180
used_colors(places) ==
    {norm_color(places[i].color) : i \in 1..Len(places)}
        \cup (IF \E i \in 1..Len(places) :
                    IsMixedGroup(LegendGroup(places, legend_key(places[i])))
              THEN {LEGEND_MIXED} ELSE {})

\* the page drawn for the places and shapes handed to the map
PageOf(places, shapes, drawn, legend) ==
    [places |-> places, shapes |-> shapes,
     markers |-> drawn.markers, labels |-> drawn.labels,
     legend |-> legend]

\* build_map_html and initMap (main.py:127-138), and the legend colors
\* (main.py:170-180), for the places and shapes of the view
Page(places, shapes) ==
    PageOf(places, shapes, initMap(places, shapes), used_colors(places))

----------------------------------------------------------------------------
(* Input rows *)

\* the most rows after the map-center row and the pin row
MaxOtherRows == 3

EmptyText == <<>>

Key1 == <<"1">>

Key2 == <<"2">>

Key07 == <<"0", "7">>

NameUL(key) == <<CH_HIDARI, CH_UE>> \o key

NameLR(key) == <<CH_MIGI, CH_SHITA>> \o key

NameShop == <<"A">>

\* (35.000, 139.000), no offset
PtA == [lat |-> Some(350000000), lng |-> Some(1390000000), north |-> 0, east |-> 0]

\* (34.999, 139.001), no offset
PtB == [lat |-> Some(349990000), lng |-> Some(1390010000), north |-> 0, east |-> 0]

\* (35.0002, 139.0003) moved 50 m south and 30 m east
PtC == [lat |-> Some(350002000), lng |-> Some(1390003000), north |-> -5000, east |-> 3000]

\* 0.3 micro-degrees north and 0.5 micro-degrees east of PtB
PtB2 == [lat |-> Some(349990003), lng |-> Some(1390010005), north |-> 0, east |-> 0]

\* latitude and longitude absent
PtNone == [lat |-> None, lng |-> None, north |-> 0, east |-> 0]

\* longitude absent
PtNoLng == [lat |-> Some(350000000), lng |-> None, north |-> 0, east |-> 0]

\* latitude 91: out of range as read
PtOut == [lat |-> Some(910000000), lng |-> Some(1390000000), north |-> 0, east |-> 0]

\* (89.9995, 139.000) moved 100 m north: out of range after the offset
PtEdge == [lat |-> Some(899995000), lng |-> Some(1390000000), north |-> 10000, east |-> 0]

\* a row as load_rows_from_csv builds it
Row(name, pt, website, desc) ==
    [raw_name |-> name, desc |-> desc, website |-> website,
     color |-> EmptyText, genre |-> EmptyText, address |-> EmptyText,
     lat |-> pt.lat, lng |-> pt.lng,
     north_offset_m |-> pt.north, east_offset_m |-> pt.east]

TxtEllipseJa == <<CH_DA, CH_EN>>

TxtRectJa == <<CH_SHI, CH_KAKU>>

Txt45Do == <<"4", "5", CH_DO>>

TxtDesc1 == <<"d", "1">>

TxtDesc2 == <<"d", "2">>

TxtRect == <<"r", "e", "c", "t">>

TxtRECT90 == <<"R", "E", "C", "T", " ", "9", "0">>

TxtRectangleM30deg ==
    <<"r", "e", "c", "t", "a", "n", "g", "l", "e", "-", "3", "0", "d", "e", "g">>

TxtEllipseEn == <<"E", "l", "l", "i", "p", "s", "e">>

TxtEllipse30Do == TxtEllipseJa \o <<"3", "0", CH_DO>>

TxtRectEllipse == TxtRectJa \o TxtEllipseJa

TxtEllipseRect45 == TxtEllipseJa \o <<" ", "r", "e", "c", "t", " ", "4", "5">>

TxtM45 == <<"-", "4", "5">>

TxtMinusSpace5 == <<"-", " ", "5">>

TxtRotate1p5deg == <<"r", "o", "t", "a", "t", "e", " ", "1", ".", "5", "d", "e", "g">>

TxtZero == <<"0">>

TxtMinusZero == <<"-", "0", ".", "0">>

\* 0.0000009: below the 1e-6 threshold
TxtBelowEps == <<"0", ".", "0", "0", "0", "0", "0", "0", "9">>

\* 0.000001: at the 1e-6 threshold
TxtAtEps == <<"0", ".", "0", "0", "0", "0", "0", "1">>

Txt360 == <<"3", "6", "0">>

TxtNoNumber == <<"a", "b", "c", ".">>

Txt2Then45Do == <<"2", " ", "4", "5", CH_DO>>

\* the shape specifications tried by the shape-specification runs
SpecTexts ==
    { EmptyText, TxtRectJa, TxtEllipseJa, Txt45Do, TxtRect, TxtRECT90,
      TxtRectangleM30deg, TxtEllipseEn, TxtEllipse30Do, TxtRectEllipse,
      TxtEllipseRect45, TxtM45, TxtMinusSpace5, TxtRotate1p5deg, TxtZero,
      TxtMinusZero, TxtBelowEps, TxtAtEps, Txt360, TxtNoNumber, Txt2Then45Do }

\* the rows tried after the first two by the general runs
ULRows ==
    {Row(NameUL(Key1), p, EmptyText, TxtDesc1) : p \in {PtA, PtC, PtNoLng, PtOut}}
      \cup {Row(NameUL(Key1), PtA, Txt45Do, TxtDesc1)}
      \cup {Row(NameUL(Key2), PtA, EmptyText, TxtDesc2)}

LRRows ==
    {Row(NameLR(Key1), p, EmptyText, TxtDesc1) : p \in {PtB, PtNone}}
      \cup {Row(NameLR(Key2), PtB, EmptyText, TxtDesc2)}

PlaceRows ==
    {Row(NameShop, p, EmptyText, TxtDesc1) : p \in {PtA, PtNoLng, PtEdge}}

RowPool == ULRows \cup LRRows \cup PlaceRows

\* the first two rows tried by the general runs
HeaderRows ==
    {<<Row(NameShop, h[1], EmptyText, EmptyText), Row(NameShop, h[2], EmptyText, EmptyText)>> :
        h \in {<<PtA, PtB>>, <<PtA, PtNone>>, <<PtNone, PtB>>, <<PtNoLng, PtB>>,
                <<PtEdge, PtB>>}}

\* all sequences over S of length at most n
RECURSIVE SeqsUpTo(_, _)
SeqsUpTo(S, n) ==
    IF n = 0 THEN {<<>>}
    ELSE LET shorter == SeqsUpTo(S, n - 1)
         IN  shorter \cup {Append(q, x) : q \in shorter, x \in S}

----------------------------------------------------------------------------
(* The state machine: rows as loaded, then build_geo_from_rows applied *)

TypeOK ==
    /\ pc \in {"start", "stopped", "checked", "loaded", "built", "raised",
               "rendered", "call", "returned", "service"}
    /\ (pc = "loaded") => (geo = None)
    /\ (pc \in {"built", "raised", "rendered"}) => (geo # None)
    /\ (pc = "rendered") = (view # None)

\* nothing drawn, no file, nothing geocoded, no call made, no run begun
Idle ==
    /\ view = None
    /\ csv = <<>>
    /\ cache = {}
    /\ requests = <<>>
    /\ calls = <<>>
    /\ last = None
    /\ runs = 0
    /\ session = None

\* any list of rows: too short, or two first rows and up to MaxOtherRows more
Init ==
    /\ rows \in {<<>>, <<Row(NameShop, PtA, EmptyText, EmptyText)>>}
                  \cup {h \o o : h \in HeaderRows, o \in SeqsUpTo(RowPool, MaxOtherRows)}
    /\ pc = "loaded"
    /\ geo = None
    /\ Idle

\* one shape pair with every shape specification, between two resolved rows
InitShape ==
    /\ rows \in {<<Row(NameShop, PtA, EmptyText, EmptyText),
                   Row(NameShop, PtB, EmptyText, EmptyText),
                   Row(NameUL(k), p, w, TxtDesc1),
                   Row(NameLR(k), q, v, TxtDesc2)>> :
                    k \in {Key1, Key07}, p \in {PtA, PtB, PtB2, PtC}, q \in {PtA, PtB},
                    w \in SpecTexts, v \in {EmptyText, TxtEllipseJa, Txt45Do}}
    /\ pc = "loaded"
    /\ geo = None
    /\ Idle

\* geo = build_geo_from_rows(rows)  (main.py:92, 95)
BuildGeo ==
    /\ pc = "loaded"
    /\ geo' = Some(build_geo_from_rows(rows))
    /\ pc' = IF geo'[1].status = "ok" THEN "built" ELSE "raised"
    /\ UNCHANGED <<rows, view, csv, cache, requests, calls, last, runs, session>>

Next == BuildGeo

Spec == Init /\ [][Next]_vars

SpecShape == InitShape /\ [][Next]_vars

----------------------------------------------------------------------------
(* Inputs of the runs of the whole script, of the map and of the direct    *)
(* calls                                                                   *)

AddrA == <<"a">>

AddrB == <<"b">>

\* the addresses geocoded
AddressesTried == {AddrA, AddrB}

\* what the service answers: not found (or a failure), or one of two points
AnswersTried ==
    {None, Some([lat |-> 356812362, lng |-> 1397671248]),
           Some([lat |-> 356800000, lng |-> 1397600000])}

\* one record of places.csv
Rec(name, lat, lng, north, east, address) ==
    [name |-> name, genre |-> EmptyText, color |-> EmptyText, desc |-> EmptyText,
     url |-> EmptyText, address |-> address,
     lat |-> lat, lng |-> lng, north |-> north, east |-> east]

TxtLat35 == <<"3", "5", ".", "0">>

TxtLng139 == <<"1", "3", "9", ".", "0", "0", "0", "0", "0", "0", "0">>

TxtLat350002 == <<"3", "5", ".", "0", "0", "0", "2">>

TxtLng1390003 == <<"1", "3", "9", ".", "0", "0", "0", "3">>

TxtLatSouth == <<" ", "-", "0", ".", "5", " ">>

TxtNotANumber == <<"a", "b", "c">>

TxtM50 == <<"-", "5", "0">>

TxtE30p5 == <<"3", "0", ".", "5">>

TxtN12p25 == <<"1", "2", ".", "2", "5">>

\* the first two records of the files tried: the map center and the pin
FileHeads ==
    { <<Rec(NameShop, TxtLat35, TxtLng139, EmptyText, EmptyText, EmptyText),
        Rec(NameShop, TxtLat35, TxtLng139, TxtM50, EmptyText, EmptyText)>>,
      <<Rec(NameShop, EmptyText, EmptyText, TxtN12p25, EmptyText, AddrA),
        Rec(NameShop, TxtLat35, EmptyText, EmptyText, EmptyText, AddrB)>>,
      <<Rec(NameShop, EmptyText, TxtLng139, EmptyText, EmptyText, EmptyText),
        Rec(NameShop, TxtLat35, TxtLng139, EmptyText, EmptyText, EmptyText)>> }

\* the records tried after the first two
FileRecords ==
    { Rec(NameShop, TxtLat350002, TxtLng1390003, TxtM50, TxtE30p5, EmptyText),
      Rec(NameShop, EmptyText, EmptyText, TxtN12p25, TxtM50, AddrA),
      Rec(NameShop, TxtLatSouth, EmptyText, EmptyText, TxtE30p5, AddrB),
      Rec(NameShop, EmptyText, TxtLng139, EmptyText, EmptyText, EmptyText),
      Rec(NameShop, TxtNotANumber, TxtLng139, TxtNotANumber, EmptyText, AddrA) }

\* the most records after the first two
MaxFileRecords == 2

\* the files tried: too short, or two first records and some more
FilesTried ==
    {<<>>, <<Rec(NameShop, TxtLat35, TxtLng139, EmptyText, EmptyText, EmptyText)>>}
        \cup {h \o o : h \in FileHeads, o \in SeqsUpTo(FileRecords, MaxFileRecords)}

\* the lists of rows handed to build_geo_from_rows by a direct caller
DirectRows ==
    {<<>>, <<Row(NameShop, PtA, EmptyText, EmptyText)>>,
     <<Row(NameShop, PtNone, EmptyText, EmptyText)>>,
     <<Row(NameShop, PtNone, EmptyText, EmptyText),
       Row(NameShop, PtB, EmptyText, EmptyText)>>,
     <<Row(NameShop, PtA, EmptyText, EmptyText),
       Row(NameShop, PtB, EmptyText, EmptyText)>>}

\* a run of the script on a file, with nothing geocoded yet
InitMain ==
    /\ csv \in FilesTried
    /\ pc = "start"
    /\ rows = <<>>
    /\ geo = None
    /\ view = None
    /\ cache = {}
    /\ requests = <<>>
    /\ calls = <<>>
    /\ last = None
    /\ runs = 0
    /\ session = None

\* build_geo_from_rows called on a list of rows by a direct caller
InitDirect ==
    /\ rows \in DirectRows
    /\ pc = "loaded"
    /\ geo = None
    /\ Idle

\* direct calls of _geocode, with nothing geocoded yet
InitGeocode ==
    /\ pc = "service"
    /\ rows = <<>>
    /\ geo = None
    /\ Idle

\* the floats tried as lat_deg
LatsTried ==
    {Finite(v) : v \in {0, 350000000, -350000000, 600000000, 899000000,
                        900000000, -900000000}}
        \cup {[kind |-> k] : k \in {"inf", "-inf", "nan"}}

\* the offsets tried, in centimeters
OffsetsTried == {0, 1, 3000, -5000}

\* one direct call of _meters_to_deg about to be made
InitProjector ==
    /\ last \in {Some([fn |-> "meters_to_deg",
                       args |-> [lat_deg |-> x, north_m |-> n, east_m |-> e],
                       ret |-> None]) :
                    x \in LatsTried, n \in OffsetsTried, e \in OffsetsTried}
    /\ pc = "call"
    /\ rows = <<>>
    /\ geo = None
    /\ view = None
    /\ csv = <<>>
    /\ cache = {}
    /\ requests = <<>>
    /\ calls = <<>>
    /\ runs = 0
    /\ session = None

\* places close together: MkA and MkB round to (35.000000, 139.000000), MkC
\* to (35.000001, 139.000000); MkZp and MkZn lie 0.00000002 degrees north and
\* 0.00000003 degrees south of the equator
MkA == [lat |-> Some(350000001), lng |-> Some(1390000002), north |-> 0, east |-> 0]

MkB == [lat |-> Some(350000004), lng |-> Some(1390000003), north |-> 0, east |-> 0]

MkC == [lat |-> Some(350000006), lng |-> Some(1390000002), north |-> 0, east |-> 0]

MkZp == [lat |-> Some(2), lng |-> Some(1390000002), north |-> 0, east |-> 0]

MkZn == [lat |-> Some(-3), lng |-> Some(1390000002), north |-> 0, east |-> 0]

ColBlue == <<"b", "l", "u", "e">>

ColRed == <<"r", "e", "d">>

\* a place row with a color; the name tells the point, the description the color
ColoredRow(name, pt, color) ==
    [Row(name, pt, EmptyText, color) EXCEPT !.color = color]

\* the place rows tried by the runs of the map
MarkerRows ==
    {ColoredRow(<<"A">>, MkA, c) : c \in {EmptyText, ColBlue, ColRed, COLOR_MIXED}}
        \cup {ColoredRow(<<"B">>, MkB, c) : c \in {EmptyText, ColBlue, ColRed}}
        \cup {ColoredRow(<<"C">>, MkC, c) : c \in {EmptyText, ColBlue}}
        \cup {ColoredRow(<<"P">>, MkZp, c) : c \in {EmptyText, ColBlue}}
        \cup {ColoredRow(<<"N">>, MkZn, c) : c \in {EmptyText, ColBlue, ColRed}}

\* the most place rows on the map
MaxMarkerRows == 3

\* place rows with colors, between two resolved rows
InitMarkers ==
    /\ rows \in {<<Row(NameShop, PtA, EmptyText, EmptyText),
                   Row(NameShop, PtB, EmptyText, EmptyText)>> \o o :
                    o \in SeqsUpTo(MarkerRows, MaxMarkerRows)}
    /\ pc = "loaded"
    /\ geo = None
    /\ Idle

\* the first two rows tried by the runs on the roles of the rows: plain
\* names and names that match the shape patterns, resolved and unresolved
RoleHeads ==
    {<<Row(n0, PtA, TxtEllipseJa, TxtDesc1), Row(n1, p1, EmptyText, TxtDesc2)>> :
        n0 \in {NameShop, NameUL(Key1), NameLR(Key1)},
        n1 \in {NameShop, NameUL(Key1), NameLR(Key1)},
        p1 \in {PtB, PtNone}}

\* the rows tried after the first two by the runs on the roles of the rows
RoleRows ==
    {Row(NameUL(Key1), PtA, EmptyText, TxtDesc1),
     Row(NameLR(Key1), PtB, EmptyText, TxtDesc2),
     Row(NameLR(Key1), PtNone, EmptyText, TxtDesc2),
     Row(NameShop, PtC, EmptyText, TxtDesc1),
     Row(NameShop, PtNoLng, EmptyText, TxtDesc1)}

\* the most rows after the first two in the runs on the roles of the rows
MaxRoleRows == 2

\* rows whose first two members may carry the name of a shape row
InitRoles ==
    /\ rows \in {h \o o : h \in RoleHeads, o \in SeqsUpTo(RoleRows, MaxRoleRows)}
    /\ pc = "loaded"
    /\ geo = None
    /\ Idle

----------------------------------------------------------------------------
(* The steps of the main script, run again from the top on every rerun,    *)
(* and the direct calls of the geocoder and of the projector               *)

\* the most runs of the script
MaxRuns == 2

\* the most calls of _geocode made directly
MaxCalls == 3

\* the memo, the requests and the calls as one record
Geocoder == [cache |-> cache, requests |-> requests, calls |-> calls]

\* the start of a run without the row-count check of main.py:77-79
MainLoad_NoCheck ==
    /\ pc \in {"start", "stopped", "raised", "rendered"}
    /\ runs < MaxRuns
    /\ runs' = runs + 1
    /\ rows' = load_rows_from_csv(csv)
    /\ pc' = "checked"
    /\ geo' = None
    /\ view' = None
    /\ last' = None
    /\ UNCHANGED <<csv, cache, requests, calls, session>>

\* rows = load_rows_from_csv(CSV_PATH) and the row-count check
\* (main.py:76-79), at the start of a run
MainLoad ==
    /\ pc \in {"start", "stopped", "raised", "rendered"}
    /\ runs < MaxRuns
    /\ runs' = runs + 1
    /\ rows' = load_rows_from_csv(csv)
    /\ pc' = IF Len(rows') < 2 THEN "stopped" ELSE "checked"
    /\ geo' = None
    /\ view' = None
    /\ last' = None
    /\ UNCHANGED <<csv, cache, requests, calls, session>>

\* the state after backfill_missing_latlng_and_save returned `out`
Backfilled(out) ==
    /\ rows' = out.rows
    /\ csv' = out.file
    /\ cache' = out.g.cache
    /\ requests' = out.g.requests
    /\ calls' = out.g.calls
    /\ last' = Some([fn |-> "backfill", updated |-> out.updated,
                     saved |-> out.saved])

\* the backfill step (main.py:82-91): backfill_missing_latlng_and_save when
\* some row needs it, with whatever the service answers for each address
MainBackfill ==
    /\ pc = "checked"
    /\ pc' = "loaded"
    /\ IF missing_needed(rows) > 0
       THEN \E answers \in [AddressesTried -> AnswersTried] :
               Backfilled(backfill_missing_latlng_and_save(rows, csv, answers,
                                                           Geocoder))
       ELSE UNCHANGED <<rows, csv, cache, requests, calls, last>>
    /\ UNCHANGED <<geo, view, runs, session>>

\* the rest of the run (main.py:111-180): the session state initialised on
\* the first render, the places and shapes filtered by it, build_map_html and
\* initMap on them, and the legend colors
RenderMap ==
    /\ pc = "built"
    /\ session' = IF session = None
                  THEN Some([show_shapes |-> TRUE,
                             selected_genres |-> all_genres(geo[1].places)])
                  ELSE session
    /\ view' = Some(Page(places_for_view(geo[1].places, session'[1].selected_genres),
                         shapes_for_view(geo[1].shapes, session'[1].show_shapes)))
    /\ pc' = "rendered"
    /\ UNCHANGED <<rows, geo, csv, cache, requests, calls, last, runs>>

\* st.toggle(key="show_shapes") flipped by the user (main.py:146): the
\* session state changes and the script is run again
ToggleShapes ==
    /\ pc = "rendered"
    /\ runs < MaxRuns
    /\ session' = Some([session[1] EXCEPT !.show_shapes = ~@])
    /\ pc' = "start"
    /\ geo' = None
    /\ view' = None
    /\ UNCHANGED <<rows, csv, cache, requests, calls, last, runs>>

\* st.multiselect(options=all_genres, key="selected_genres") changed by the
\* user (main.py:148-153): the session state changes and the script is run
\* again
SelectGenres ==
    /\ pc = "rendered"
    /\ runs < MaxRuns
    /\ \E chosen \in SUBSET all_genres(geo[1].places) :
          /\ chosen # session[1].selected_genres
          /\ session' = Some([session[1] EXCEPT !.selected_genres = chosen])
    /\ pc' = "start"
    /\ geo' = None
    /\ view' = None
    /\ UNCHANGED <<rows, csv, cache, requests, calls, last, runs>>

\* one direct call of _geocode
GeocodeCall ==
    /\ pc = "service"
    /\ Len(calls) < MaxCalls
    /\ \E address \in AddressesTried \cup {EmptyText}, answer \in AnswersTried :
          LET out == geocode(address, answer, Geocoder)
          IN  /\ cache' = out.cache
              /\ requests' = out.requests
              /\ calls' = out.calls
              /\ last' = Some([fn |-> "geocode", ret |-> out.result])
    /\ UNCHANGED <<rows, pc, geo, view, csv, runs, session>>

\* one direct call of _meters_to_deg
ProjectorCall ==
    /\ pc = "call"
    /\ last' = Some([fn |-> "meters_to_deg", args |-> last[1].args,
                     ret |-> meters_to_deg_float(last[1].args.lat_deg,
                                                 last[1].args.north_m,
                                                 last[1].args.east_m)])
    /\ pc' = "returned"
    /\ UNCHANGED <<rows, geo, view, csv, cache, requests, calls, runs, session>>

NextView == BuildGeo \/ RenderMap

NextMain == MainLoad \/ MainBackfill \/ BuildGeo \/ RenderMap

NextFilter ==
    MainLoad \/ MainBackfill \/ BuildGeo \/ RenderMap \/ ToggleShapes \/ SelectGenres

NextGeocode == GeocodeCall

NextProjector == ProjectorCall

\* the whole script, run up to MaxRuns times, or build_geo_from_rows called
\* directly
SpecMain == (InitMain \/ InitDirect) /\ [][NextMain]_vars

\* build_geo_from_rows and the map on place rows with colors
SpecMarkers == InitMarkers /\ [][NextView]_vars

\* build_geo_from_rows and the map on one shape pair
SpecShapeView == InitShape /\ [][NextView]_vars

\* build_geo_from_rows on rows whose first two may be named as shape rows
SpecRoles == InitRoles /\ [][Next]_vars

\* direct calls of _geocode
SpecGeocode == InitGeocode /\ [][NextGeocode]_vars

\* direct calls of _meters_to_deg
SpecProjector == InitProjector /\ [][NextProjector]_vars

----------------------------------------------------------------------------
(* Files with genres, for the runs with the display options *)

CH_MEN == "U+9EBA"

TagMen == <<CH_MEN>>

TagCurry == <<"U+30AB", "U+30EC", "U+30FC">>

TagSushi == <<"U+5BFF", "U+53F8">>

TagKaisen == <<"U+6D77", "U+9BAE">>

\* the texts of the genre column tried: every separator, spaces, an empty
\* piece, and a text of separators only
GenreTexts ==
    { EmptyText,
      TagMen \o <<"/">> \o TagCurry,
      <<" ">> \o TagCurry \o <<" ", "U+FF0F", " ">>,
      TagSushi \o <<"U+30FB">> \o TagKaisen,
      TagMen \o <<"U+3001">> \o TagSushi \o <<",">> \o TagKaisen,
      TagMen \o <<"|">> \o TagCurry \o <<"U+FF5C">> \o TagSushi,
      <<"U+30FB">> }

\* a place record with a genre
GenreRec(genre) ==
    [Rec(NameShop, TxtLat35, TxtLng139, EmptyText, EmptyText, EmptyText)
        EXCEPT !.genre = genre]

\* the most place records of a file with genres
MaxGenreRecords == 2

\* the files tried: the map center, the pin, one shape pair and some places
FilterFiles ==
    {<<Rec(NameShop, TxtLat35, TxtLng139, EmptyText, EmptyText, EmptyText),
       Rec(NameShop, TxtLat35, TxtLng139, EmptyText, EmptyText, EmptyText),
       Rec(NameUL(Key1), TxtLat35, TxtLng139, EmptyText, EmptyText, EmptyText),
       Rec(NameLR(Key1), TxtLat350002, TxtLng1390003, EmptyText, EmptyText, EmptyText)>>
        \o o : o \in SeqsUpTo({GenreRec(g) : g \in GenreTexts}, MaxGenreRecords)}

\* a first run of the script on a file with genres
InitFilter ==
    /\ csv \in FilterFiles
    /\ pc = "start"
    /\ rows = <<>>
    /\ geo = None
    /\ view = None
    /\ cache = {}
    /\ requests = <<>>
    /\ calls = <<>>
    /\ last = None
    /\ runs = 0
    /\ session = None

\* the whole script, run again after each change of a display option
SpecFilter == InitFilter /\ [][NextFilter]_vars


----------------------------------------------------------------------------
(* Vocabulary of the properties *)

\* the result of build_geo_from_rows once it has returned
G == geo[1]

\* the rows handed to _build_shapes
Others == IF Len(rows) >= 3 THEN SubSeq(rows, 3, Len(rows)) ELSE <<>>

KeysTried == {Key1, Key2, Key07}

HasRowNamed(rs, name) == \E i \in 1..Len(rs) : rs[i].raw_name = name

LastRowNamed(rs, name) ==
    rs[CHOOSE i \in 1..Len(rs) :
          /\ rs[i].raw_name = name
          /\ \A j \in 1..Len(rs) : rs[j].raw_name = name => j <= i]

Unresolved(r) == r.lat = None \/ r.lng = None

KeyPresent(k) == HasRowNamed(Others, NameUL(k)) \/ HasRowNamed(Others, NameLR(k))

KeyComplete(k) == HasRowNamed(Others, NameUL(k)) /\ HasRowNamed(Others, NameLR(k))

KeyBad(k) ==
    \/ ~KeyComplete(k)
    \/ Unresolved(LastRowNamed(Others, NameUL(k)))
    \/ Unresolved(LastRowNamed(Others, NameLR(k)))

WarningsOf(k) ==
    {i \in 1..Len(G.shape_warnings) : G.shape_warnings[i].key = k}

\* the shape the builder gives the pair of key k when it is handed that pair alone
ShapeAlone(k) ==
    build_shapes(<<LastRowNamed(Others, NameUL(k)),
                   LastRowNamed(Others, NameLR(k))>>).shapes[1]

----------------------------------------------------------------------------
(* C1: every key of the rows given to the shape builder is settled on its  *)
(* own.  A key with a missing member, or with a member whose lat or lng is *)
(* absent, gives no shape and exactly one warning naming it; every other   *)
(* key gives exactly one shape (the shape of that pair alone) and no       *)
(* warning; so shapes + warnings = number of distinct keys.                *)
C1_EachKeySettledAlone ==
    pc = "built" =>
        LET present == {k \in KeysTried : KeyPresent(k)}
            good    == {k \in present : ~KeyBad(k)}
        IN  /\ \A k \in present \ good : Cardinality(WarningsOf(k)) = 1
            /\ \A k \in good :
                  /\ WarningsOf(k) = {}
                  /\ \E i \in 1..Len(G.shapes) : G.shapes[i] = ShapeAlone(k)
            /\ Len(G.shapes) = Cardinality(good)
            /\ Len(G.shapes) + Len(G.shape_warnings) = Cardinality(present)

\* a bad pair and a good pair side by side: one warning, one shape
C1_Witness ==
    /\ pc = "built"
    /\ KeyPresent(Key1) /\ KeyBad(Key1)
    /\ KeyPresent(Key2) /\ ~KeyBad(Key2)
    /\ Len(G.shapes) = 1
    /\ Len(G.shape_warnings) = 1

----------------------------------------------------------------------------
(* Vocabulary of the shape properties *)

GoodKeys == {k \in KeysTried : KeyPresent(k) /\ ~KeyBad(k)}

UlRow(k) == LastRowNamed(Others, NameUL(k))

LrRow(k) == LastRowNamed(Others, NameLR(k))

\* the shape of key k in the output: shapes come in the sorted order of the keys
ShapeFor(k) == G.shapes[1 + Cardinality({j \in GoodKeys : StrLess(j, k)})]

\* row r at the place (coordinates and offsets) of row q
MovedTo(r, q) ==
    [r EXCEPT !.lat = q.lat, !.lng = q.lng,
              !.north_offset_m = q.north_offset_m,
              !.east_offset_m = q.east_offset_m]

\* the tried shape specifications that hold a rectangle word, read by hand
RectWordTexts ==
    {TxtRectJa, TxtRect, TxtRECT90, TxtRectangleM30deg, TxtRectEllipse,
     TxtEllipseRect45}

\* the tried shape specifications that hold an ellipse word, read by hand
EllipseWordTexts ==
    {TxtEllipseJa, TxtEllipseEn, TxtEllipse30Do, TxtRectEllipse, TxtEllipseRect45}

\* the number written in each tried shape specification, read by hand
\* (0 when it holds no number)
WrittenAngle(w) ==
    CASE w = Txt45Do            -> [neg |-> FALSE, ip |-> 45,  fp |-> 0]
      [] w = TxtRECT90          -> [neg |-> FALSE, ip |-> 90,  fp |-> 0]
      [] w = TxtRectangleM30deg -> [neg |-> TRUE,  ip |-> 30,  fp |-> 0]
      [] w = TxtEllipse30Do     -> [neg |-> FALSE, ip |-> 30,  fp |-> 0]
      [] w = TxtEllipseRect45   -> [neg |-> FALSE, ip |-> 45,  fp |-> 0]
      [] w = TxtM45             -> [neg |-> TRUE,  ip |-> 45,  fp |-> 0]
      [] w = TxtMinusSpace5     -> [neg |-> FALSE, ip |-> 5,   fp |-> 0]
      [] w = TxtRotate1p5deg    -> [neg |-> FALSE, ip |-> 1,   fp |-> 5000000]
      [] w = TxtMinusZero       -> [neg |-> TRUE,  ip |-> 0,   fp |-> 0]
      [] w = TxtBelowEps        -> [neg |-> FALSE, ip |-> 0,   fp |-> 9]
      [] w = TxtAtEps           -> [neg |-> FALSE, ip |-> 0,   fp |-> 10]
      [] w = Txt360             -> [neg |-> FALSE, ip |-> 360, fp |-> 0]
      [] w = Txt2Then45Do       -> [neg |-> FALSE, ip |-> 2,   fp |-> 0]
      [] OTHER                  -> [neg |-> FALSE, ip |-> 0,   fp |-> 0]

\* the written angle is less than 1e-6 away from zero
WrittenAngleIsZero(w) == WrittenAngle(w).ip = 0 /\ WrittenAngle(w).fp < 10

\* c is the middle of x and y, to the last fixed-point digit
IsMiddle(c, x, y) ==
    LET lo == IF x <= y THEN x ELSE y
        hi == IF x <= y THEN y ELSE x
    IN  lo <= c /\ c <= hi /\ (hi - c) - (c - lo) \in {0, 1}

\* |x - y| <= tol
Near(x, y, tol) == x - y <= tol /\ y - x <= tol

----------------------------------------------------------------------------
(* C2: for every complete pair the bounds are north = max and south = min  *)
(* of the two offset-adjusted latitudes, east = max and west = min of the  *)
(* two offset-adjusted longitudes, hence north >= south and east >= west;  *)
(* exchanging the places of the two members gives the identical shape; and *)
(* (35.000, 139.000) / (34.999, 139.001) with an empty specification gives *)
(* the rect north=35.000, south=34.999, west=139.000, east=139.001.        *)
C2_BoundsAreMaxMin ==
    pc = "built" =>
        \A k \in GoodKeys :
            LET ul == UlRow(k)
                lr == LrRow(k)
                a  == RowAdj(ul)[1]
                b  == RowAdj(lr)[1]
                s  == ShapeFor(k)
            IN  /\ s.type = "rect" =>
                      /\ s.north = (IF a.lat >= b.lat THEN a.lat ELSE b.lat)
                      /\ s.south = (IF a.lat >= b.lat THEN b.lat ELSE a.lat)
                      /\ s.east = (IF a.lng >= b.lng THEN a.lng ELSE b.lng)
                      /\ s.west = (IF a.lng >= b.lng THEN b.lng ELSE a.lng)
                      /\ s.north >= s.south
                      /\ s.east >= s.west
                /\ build_shapes(<<MovedTo(ul, lr), MovedTo(lr, ul)>>).shapes = <<s>>
                /\ ( /\ ul.lat = PtA.lat /\ ul.lng = PtA.lng
                     /\ lr.lat = PtB.lat /\ lr.lng = PtB.lng
                     /\ ul.north_offset_m = 0 /\ ul.east_offset_m = 0
                     /\ ul.website = EmptyText )
                   => /\ s.type = "rect"
                      /\ s.north = 350000000 /\ s.south = 349990000
                      /\ s.west = 1390000000 /\ s.east = 1390010000

\* an upper-left row that lies south-east of its lower-right row, after a
\* 50 m / 30 m offset: the rect still has its north on the lower-right row
C2_Witness ==
    /\ pc = "built"
    /\ Key1 \in GoodKeys
    /\ UlRow(Key1).north_offset_m = -5000
    /\ LrRow(Key1).lat = PtA.lat
    /\ ShapeFor(Key1).type = "rect"
    /\ ShapeFor(Key1).north = 350000000
    /\ ShapeFor(Key1).south < 350000000
    /\ ShapeFor(Key1).west = 1390000000

----------------------------------------------------------------------------
(* C3 as stated: a specification with a rectangle word gives a rectangle   *)
(* kind (rect or poly), one with an ellipse word gives an ellipse, one     *)
(* with neither gives a rectangle kind.                                    *)
C3_KindByKeyword_Original ==
    pc = "built" =>
        \A k \in GoodKeys :
            LET w == UlRow(k).website
                t == ShapeFor(k).type
            IN  /\ w \in RectWordTexts => t \in {"rect", "poly"}
                /\ w \in EllipseWordTexts => t = "ellipse"
                /\ w \notin RectWordTexts \cup EllipseWordTexts => t \in {"rect", "poly"}

(* C3 amended: the kind is an ellipse exactly when the upper-left row's    *)
(* specification holds an ellipse word, whether or not it also holds a     *)
(* rectangle word, and a rectangle kind (rect or poly) otherwise; the      *)
(* lower-right row's field never changes the shape.                        *)
C3_EllipseWordDecides ==
    pc = "built" =>
        \A k \in GoodKeys :
            LET w == UlRow(k).website
                t == ShapeFor(k).type
            IN  /\ w \in EllipseWordTexts => t = "ellipse"
                /\ w \notin EllipseWordTexts => t \in {"rect", "poly"}
                /\ \A v \in {EmptyText, TxtEllipseJa, Txt45Do} :
                      build_shapes(<<UlRow(k), [LrRow(k) EXCEPT !.website = v]>>).shapes
                          = <<ShapeFor(k)>>

\* both words in the upper-left field give an ellipse, and the angle written
\* in the lower-right field is not read
C3_Witness ==
    /\ pc = "built"
    /\ Key1 \in GoodKeys
    /\ UlRow(Key1).website = TxtRectEllipse
    /\ LrRow(Key1).website = Txt45Do
    /\ ShapeFor(Key1).type = "ellipse"
    /\ ShapeFor(Key1).rotationDeg = RotZero

----------------------------------------------------------------------------
(* C4: a pair that is not an ellipse is emitted as 'rect' exactly when the *)
(* angle written in the upper-left row's specification is less than 1e-6   *)
(* away from zero and as 'poly' otherwise; the angle read is the number    *)
(* written there (sign, decimals, unit optional), 0 when there is none,    *)
(* and reading it never raises.                                            *)
C4_RectIffZeroAngle ==
    /\ pc # "raised"
    /\ pc = "built" =>
          \A k \in GoodKeys :
              LET w == UlRow(k).website
                  t == ShapeFor(k).type
              IN  /\ ParseRot(Strip(w)) = WrittenAngle(w)
                  /\ t # "ellipse" =>
                        /\ WrittenAngleIsZero(w) => t = "rect"
                        /\ ~WrittenAngleIsZero(w) => t = "poly"

\* 0.0000009 degrees is a rect, and the run also holds its neighbour 0.000001
C4_Witness ==
    /\ pc = "built"
    /\ Key1 \in GoodKeys
    /\ UlRow(Key1).website = TxtBelowEps
    /\ ShapeFor(Key1).type = "rect"

----------------------------------------------------------------------------
(* C5: the pair (35.000, 139.000) / (34.999, 139.001) with the             *)
(* specification "45<degrees>" is emitted as a 'poly' of exactly 4 points, *)
(* the corners NE, NW, SW, SE of the local frame turned by 45 degrees      *)
(* about the middle of the box, and the lat/lng box of the 4 points is     *)
(* strictly larger than the box of the pair.  The expected points are      *)
(* those the Python source prints for this input, to 3e-6 degrees.         *)
C5_Case(k) ==
    /\ k \in GoodKeys
    /\ UlRow(k).website = Txt45Do
    /\ UlRow(k).lat = PtA.lat /\ UlRow(k).lng = PtA.lng
    /\ UlRow(k).north_offset_m = 0 /\ UlRow(k).east_offset_m = 0
    /\ LrRow(k).lat = PtB.lat /\ LrRow(k).lng = PtB.lng

C5_Rotated45 ==
    pc = "built" =>
        \A k \in KeysTried :
            C5_Case(k) =>
                LET s == ShapeFor(k)
                    p == s.paths
                IN  /\ s.type = "poly"
                    /\ Len(p) = 4
                    /\ Near(p[1].lat, 350001432, 30) /\ Near(p[1].lng, 1390004219, 30)
                    /\ Near(p[2].lat, 349995639, 30) /\ Near(p[2].lng, 1389997148, 30)
                    /\ Near(p[3].lat, 349988568, 30) /\ Near(p[3].lng, 1390005781, 30)
                    /\ Near(p[4].lat, 349994361, 30) /\ Near(p[4].lng, 1390012852, 30)
                    /\ \E i \in 1..4 : p[i].lat > 350000000
                    /\ \E i \in 1..4 : p[i].lat < 349990000
                    /\ \E i \in 1..4 : p[i].lng < 1390000000
                    /\ \E i \in 1..4 : p[i].lng > 1390010000

C5_Witness ==
    /\ pc = "built"
    /\ C5_Case(Key1)
    /\ ShapeFor(Key1).type = "poly"
    /\ ShapeFor(Key1).paths[1].lat > 350000000

----------------------------------------------------------------------------
(* C6: every ellipse has both radii at least 1 m, also when the box of the *)
(* pair has no or nearly no area; its center is the middle of the box; its *)
(* rotationDeg is the angle written in the specification; and its radii    *)
(* are those of the same pair with no angle written.                       *)
C6_EllipseRadii ==
    pc = "built" =>
        \A k \in GoodKeys :
            LET s  == ShapeFor(k)
                w  == UlRow(k).website
                a  == RowAdj(UlRow(k))[1]
                b  == RowAdj(LrRow(k))[1]
                s0 == build_shapes(<<[UlRow(k) EXCEPT !.website = TxtEllipseJa],
                                     LrRow(k)>>).shapes[1]
            IN  s.type = "ellipse" =>
                    /\ s.radiusNorthM >= 100
                    /\ s.radiusEastM >= 100
                    /\ IsMiddle(s.center.lat, a.lat, b.lat)
                    /\ IsMiddle(s.center.lng, a.lng, b.lng)
                    /\ s.rotationDeg = WrittenAngle(w)
                    /\ s.radiusNorthM = s0.radiusNorthM
                    /\ s.radiusEastM = s0.radiusEastM

\* a pair of two equal points, turned by 30 degrees: radii of exactly 1 m
C6_Witness ==
    /\ pc = "built"
    /\ Key1 \in GoodKeys
    /\ UlRow(Key1).lat = LrRow(Key1).lat
    /\ UlRow(Key1).lng = LrRow(Key1).lng
    /\ UlRow(Key1).website = TxtEllipse30Do
    /\ ShapeFor(Key1).type = "ellipse"
    /\ ShapeFor(Key1).radiusNorthM = 100
    /\ ShapeFor(Key1).radiusEastM = 100
    /\ ShapeFor(Key1).rotationDeg.ip = 30

----------------------------------------------------------------------------
(* Vocabulary of the output properties *)

\* -90 <= lat <= 90 and -180 <= lng <= 180, in E7-degrees
ValidGeoPoint(p) ==
    /\ p.lat >= -900000000 /\ p.lat <= 900000000
    /\ p.lng >= -1800000000 /\ p.lng <= 1800000000

\* the rows after the first two that are places: their name is no shape tag
PlaceRowsAt ==
    {i \in 1..Len(Others) :
        \A k \in KeysTried :
            Others[i].raw_name # NameUL(k) /\ Others[i].raw_name # NameLR(k)}

\* the place rows that are kept: resolved, and in range after the offset
KeptPlaceRowsAt ==
    {i \in PlaceRowsAt :
        ~Unresolved(Others[i]) /\ ValidGeoPoint(RowAdj(Others[i])[1])}

\* every coordinate a shape carries
ShapePoints(s) ==
    CASE s.type = "rect" ->
            {[lat |-> s.north, lng |-> s.east], [lat |-> s.south, lng |-> s.west]}
      [] s.type = "ellipse" -> {s.center}
      [] s.type = "poly" -> {s.paths[i] : i \in 1..Len(s.paths)} \cup {s.labelPos}

----------------------------------------------------------------------------
(* C7: every entry of places has -90 <= lat <= 90 and -180 <= lng <= 180:  *)
(* a place row that is out of range after its offset is not in places, and *)
(* the places are exactly the resolved place rows that are in range.       *)
C7_PlacesInRange ==
    pc = "built" =>
        /\ \A i \in 1..Len(G.places) : ValidGeoPoint(G.places[i])
        /\ Len(G.places) = Cardinality(KeptPlaceRowsAt)

\* a place row moved out of range by its offset is dropped beside one kept
C7_Witness ==
    /\ pc = "built"
    /\ \E i \in PlaceRowsAt :
          /\ Others[i].north_offset_m > 0
          /\ RowAdj(Others[i])[1].lat > 900000000
    /\ Len(G.places) = 1

----------------------------------------------------------------------------
(* C8: every point of the output (map_center, pin_center, every coordinate *)
(* of every shape) has -90 <= lat <= 90 and -180 <= lng <= 180.            *)
C8_AllPointsInRange ==
    pc = "built" =>
        /\ ValidGeoPoint(G.map_center)
        /\ G.pin_center # None => ValidGeoPoint(G.pin_center[1])
        /\ \A i \in 1..Len(G.shapes) :
              \A p \in ShapePoints(G.shapes[i]) : ValidGeoPoint(p)

----------------------------------------------------------------------------
(* C9: every dropped entity has its warning in the output: one entry of    *)
(* place_warnings per dropped place row, one entry of shape_warnings per   *)
(* dropped pair.                                                           *)
C9_DroppedAreWarned ==
    pc = "built" =>
        /\ Len(G.place_warnings) = Cardinality(PlaceRowsAt \ KeptPlaceRowsAt)
        /\ Len(G.shape_warnings) =
              Cardinality({k \in KeysTried : KeyPresent(k) /\ KeyBad(k)})

----------------------------------------------------------------------------
----------------------------------------------------------------------------
(* C11 *)

\* C11: the row count is checked before any row is read by position.  With
\* fewer than 2 rows build_geo_from_rows raises "insufficient rows" (also for
\* a single row without coordinates, which would otherwise be reported as a
\* map center without coordinates) and the script stops at its own check
\* without calling build_geo_from_rows; with 2 rows or more neither happens,
\* and the only other failure is "map center unset".
C11_RowCountCheckedFirst ==
    /\ (geo # None /\ Len(rows) < 2)
          => G = [status |-> "raise", error |-> "insufficient_rows"]
    /\ (geo # None /\ Len(rows) >= 2 /\ G.status = "raise")
          => (G.error = "map_center_unset" /\ Unresolved(rows[1]))
    /\ (runs > 0 /\ Len(rows) < 2) => (pc = "stopped" /\ geo = None)
    /\ pc = "stopped" => (Len(rows) < 2 /\ geo = None)
    /\ pc = "checked" => Len(rows) >= 2

\* a single row without coordinates was handed to build_geo_from_rows
C11_Witness ==
    /\ pc = "raised"
    /\ Len(rows) = 1
    /\ Unresolved(rows[1])
    /\ G.error = "insufficient_rows"

----------------------------------------------------------------------------
(* C12 - C14: the markers of the map *)

\* what the map draws, once rendered
V == view[1]

\* the set of the members of a sequence
Range(q) == {q[k] : k \in 1..Len(q)}

\* a coordinate rounded to 6 decimals, as a number of micro-degrees
Round6(x) == IF x >= 0 THEN (x + 5) \div 10 ELSE -((5 - x) \div 10)

\* the written 6-decimal key of a place: each rounded coordinate with the
\* sign of the coordinate before it
Key6(p) == <<p.lat < 0, Round6(p.lat), p.lng < 0, Round6(p.lng)>>

\* the markers that hold place i
MarkersWith(i) == {m \in 1..Len(V.markers) : i \in Range(V.markers[m].items)}

\* the colors written for the items of a marker
WrittenColors(m) == {G.places[i].color : i \in Range(V.markers[m].items)}

C13_MixedUnlessShared ==
    pc = "rendered" =>
        \A m \in 1..Len(V.markers) :
            IF Cardinality(WrittenColors(m)) = 1 /\ <<>> \notin WrittenColors(m)
            THEN V.markers[m].color \in WrittenColors(m)
            ELSE Len(V.markers[m].items) > 1 => V.markers[m].color = COLOR_MIXED

\* the places of one marker agree after rounding to 6 decimals
SameRounded(i, j) ==
    /\ Round6(G.places[i].lat) = Round6(G.places[j].lat)
    /\ Round6(G.places[i].lng) = Round6(G.places[j].lng)

\* every place is in exactly one marker, once; the items of a marker are in
\* input order and its popup has their sections, one each, in that order
MarkersPartitionInOrder ==
    /\ \A i \in 1..Len(G.places) : Cardinality(MarkersWith(i)) = 1
    /\ \A m \in 1..Len(V.markers) :
          LET it == V.markers[m].items
          IN  /\ Len(it) >= 1
              /\ \A k \in 1..(Len(it) - 1) : it[k] < it[k + 1]
              /\ V.markers[m].popup = [k \in 1..Len(it) |-> PopupSection(G.places[it[k]])]

\* C14: marker grouping is a partition that keeps the order (every place in
\* exactly one group, the popup of a group showing its places once each in
\* input order), and two places are in one group exactly when their
\* latitudes and their longitudes agree after rounding to 6 decimals.
C14_GroupedIffSameRounded ==
    pc = "rendered" =>
        /\ MarkersPartitionInOrder
        /\ \A i, j \in 1..Len(G.places) :
              (MarkersWith(i) = MarkersWith(j)) <=> SameRounded(i, j)

----------------------------------------------------------------------------
(* C15: the offset projector *)

\* the arguments and the outcome of the direct call made
CallArgs == last[1].args

CallRet == last[1].ret

\* C15: for every input the projector returns, without raising: dlat is
\* north_m / 111320 whatever lat_deg and east_m are, dlng times
\* 111320 * cos(lat_deg) is east_m, and zero offsets give (0, 0) at every
\* finite latitude.
C15_ProjectorTotal ==
    pc = "returned" =>
        /\ CallRet.status = "ok"
        /\ CallRet.dlat.kind = "finite"
        /\ Near(DegToCm(CallRet.dlat.v), CallArgs.north_m, 3)
        /\ (CallArgs.lat_deg.kind = "finite" /\ CallArgs.north_m = 0 /\ CallArgs.east_m = 0)
              => (CallRet.dlat = Finite(0) /\ CallRet.dlng = Finite(0))
        /\ (CallArgs.lat_deg.kind = "finite" /\ CallRet.dlng.kind = "finite")
              => Near(MulDiv(DegToCm(CallRet.dlng.v), CosLat(CallArgs.lat_deg.v), TRIG_ONE),
                      CallArgs.east_m, 5)

----------------------------------------------------------------------------
(* C16: the geocoder *)

\* C16: over any sequence of calls of _geocode, the service is asked at most
\* once for an address, and exactly for the non-empty addresses called; every
\* later call for an address returns what the first call returned, a
\* not-found result included; the empty address returns not-found and is
\* never sent.
C16_GeocodeMemoized ==
    /\ \A i, j \in 1..Len(calls) : calls[i][1] = calls[j][1] => calls[i][2] = calls[j][2]
    /\ \A i, j \in 1..Len(requests) : requests[i] = requests[j] => i = j
    /\ Range(requests) = {calls[i][1] : i \in 1..Len(calls)} \ {EmptyText}
    /\ \A i \in 1..Len(calls) : calls[i][1] = EmptyText => calls[i][2] = None

\* an address was not found, and was asked for again without a second request
C16_Witness ==
    /\ pc = "service"
    /\ Len(calls) = 3
    /\ calls[1] = <<AddrA, None>>
    /\ calls[3] = <<AddrA, None>>
    /\ calls[2][1] = EmptyText
    /\ requests = <<AddrA>>

----------------------------------------------------------------------------
(* C17: the labels of the shapes *)

\* the geometric center of a shape
ShapeCenter(s) ==
    CASE s.type = "rect" ->
            [lat |-> Half2(s.north, s.south), lng |-> Half2(s.east, s.west)]
      [] s.type = "ellipse" -> s.center
      [] s.type = "poly" ->
            [lat |-> Half2(s.paths[1].lat, s.paths[3].lat),
             lng |-> Half2(s.paths[1].lng, s.paths[3].lng)]

\* the label of a shape is anchored bottom-right with the inset of its kind
AnchoredBottomRight(s) ==
    CASE s.type = "rect" -> s.labelAnchor = "bottom-right" /\ s.labelInsetM = 30
      [] s.type = "ellipse" -> s.labelAnchor = "bottom-right" /\ s.labelInsetM = 60
      [] s.type = "poly" -> "labelPos" \in DOMAIN s

\* C17: the label of every shape is anchored bottom-right with an inset of
\* 30 m (rect), 60 m (ellipse) or 40 m (poly, through labelPos), and the
\* position at which the label is drawn is never the geometric center of the
\* shape, whatever the size of the shape.
C17_LabelNeverAtCenter ==
    pc = "rendered" =>
        \A j \in 1..Len(G.shapes) :
            /\ AnchoredBottomRight(G.shapes[j])
            /\ V.labels[j] # None
            /\ V.labels[j][1] # ShapeCenter(G.shapes[j])

----------------------------------------------------------------------------
(* C18: the roles of the rows *)

\* the outcome for the same rows after two plain, resolved first rows
WithPlainHead ==
    build_geo_from_rows(<<Row(NameShop, PtA, EmptyText, EmptyText),
                          Row(NameShop, PtA, EmptyText, EmptyText)>> \o Others)

\* the rows after the first two whose name matches a shape pattern
ShapeRowsAt == {i \in 1..Len(Others) : IsShapeRow(Others[i])}

\* C18: the map center comes from row 0 alone and the pin from row 1 alone
\* (null when row 1 is unresolved); the places, the shapes and the warnings
\* are those of the rows from row 2 on, whatever the names and coordinates
\* of the first two rows are; and a row from row 2 on is a shape row or a
\* place, never both.
C18_RowRoles ==
    pc = "built" =>
        /\ Some(G.map_center) = RowAdj(rows[1])
        /\ G.pin_center = RowAdj(rows[2])
        /\ G.places = WithPlainHead.places
        /\ G.shapes = WithPlainHead.shapes
        /\ G.shape_warnings = WithPlainHead.shape_warnings
        /\ G.place_stats = WithPlainHead.place_stats
        /\ G.place_stats.shape_rows = Cardinality(ShapeRowsAt)
        /\ Len(G.places) <= Len(Others) - Cardinality(ShapeRowsAt)
        /\ \A k \in 1..Len(G.places) :
              /\ SHAPE_UL_RE(G.places[k].name) = None
              /\ SHAPE_LR_RE(G.places[k].name) = None

\* row 0 is named as the upper-left member of pair 1 and row 1, unresolved,
\* as its lower-right member; the only row of the pair after them is a
\* lower-right one: no shape, a warning for the pair, a null pin, one place
C18_Witness ==
    /\ pc = "built"
    /\ rows[1].raw_name = NameUL(Key1)
    /\ rows[2].raw_name = NameLR(Key1)
    /\ Unresolved(rows[2])
    /\ G.pin_center = None
    /\ G.shapes = <<>>
    /\ G.shape_warnings = <<WarnMissingMember(Key1)>>
    /\ Len(G.places) = 1

----------------------------------------------------------------------------
(* C19: offsets over the runs of the script *)

\* the rows a load of the file gives now
FileRows == load_rows_from_csv(csv)

\* the k-th of the place rows that are kept, in the order of the rows
NthKept(k) ==
    CHOOSE i \in KeptPlaceRowsAt : Cardinality({j \in KeptPlaceRowsAt : j <= i}) = k

\* in a run of the script, once the rows are built: the rows are what a load
\* of the file gives, and each place is at the coordinates the file holds for
\* its row moved by the offsets of that row once
C19_BaseInFile ==
    (runs > 0 /\ pc \in {"built", "rendered"}) =>
        /\ rows = FileRows
        /\ G = build_geo_from_rows(FileRows)
        /\ Len(G.places) = Cardinality(KeptPlaceRowsAt)
        /\ \A k \in 1..Len(G.places) :
              LET r == FileRows[NthKept(k) + 2]
                  p == G.places[k]
              IN  /\ Near(DegToCm(p.lat - r.lat[1]), r.north_offset_m, 3)
                  /\ Near(MulDiv(DegToCm(p.lng - r.lng[1]), CosLat(r.lat[1]), TRIG_ONE),
                          r.east_offset_m, 5)

\* over one step: the file keeps its records, their offsets and every pair
\* of coordinates it holds; a build changes neither the rows nor the file
C19_FileKept ==
    /\ Len(csv') = Len(csv)
    /\ \A i \in 1..Len(csv) :
          LET a == load_rows_from_csv(csv)[i]
              b == load_rows_from_csv(csv')[i]
          IN  /\ b.north_offset_m = a.north_offset_m
              /\ b.east_offset_m = a.east_offset_m
              /\ ~Unresolved(a) => (b.lat = a.lat /\ b.lng = a.lng)
    /\ (pc = "loaded" /\ pc' # "loaded") => (rows' = rows /\ csv' = csv)

\* C19: over any number of runs (load, backfill and save, build), every place
\* is drawn at its base coordinates plus its projected offsets, applied once:
\* the build changes neither its rows nor the file, and the file written back
\* holds the coordinates before the offsets.
C19_OffsetsAppliedOnce == []C19_BaseInFile /\ [][C19_FileKept]_vars

\* the second run, with nothing left to geocode, draws a row that has offsets
\* and was filled from its address and written back by the first run
C19_Witness ==
    /\ runs = 2
    /\ pc = "rendered"
    /\ last = None
    /\ \E k \in 1..Len(G.places) :
          LET r == rows[NthKept(k) + 2]
          IN  /\ r.address = AddrA
              /\ r.north_offset_m = 1225
              /\ r.east_offset_m = -5000
              /\ G.places[k].lat > r.lat[1]
              /\ G.places[k].lng < r.lng[1]

----------------------------------------------------------------------------
(* C20: the backfill *)

\* the rows the backfill has to geocode: a coordinate absent and an address
NeedAt == {i \in 1..Len(rows) : Unresolved(rows[i]) /\ rows[i].address # EmptyText}

\* the k-th of these rows, in the order of the rows
NthNeed(k) == CHOOSE i \in NeedAt : Cardinality({j \in NeedAt : j <= i}) = k

\* what _geocode returned for the k-th of these rows during the step
ResultFor(k) == calls'[Len(calls) + k][2]

\* the rows whose coordinates the step filled
FilledAt == {k \in 1..Cardinality(NeedAt) : ResultFor(k) # None}

\* the backfill step of a run
C20_BackfillStep ==
    (pc = "checked" /\ pc' = "loaded") =>
        /\ Len(rows') = Len(rows)
        /\ \A i \in (1..Len(rows)) \ NeedAt : rows'[i] = rows[i]
        /\ Len(calls') = Len(calls) + Cardinality(NeedAt)
        /\ \A k \in 1..Cardinality(NeedAt) :
              LET i == NthNeed(k)
              IN  /\ calls'[Len(calls) + k][1] = rows[i].address
                  /\ IF ResultFor(k) = None
                     THEN rows'[i] = rows[i]
                     ELSE /\ rows'[i] = [rows[i] EXCEPT
                                            !.lat = Some(ResultFor(k)[1].lat),
                                            !.lng = Some(ResultFor(k)[1].lng)]
                          /\ ~Unresolved(load_rows_from_csv(csv')[i])
        /\ IF NeedAt = {}
           THEN UNCHANGED <<csv, last>>
           ELSE /\ last' # None
                /\ last'[1].updated = Cardinality(FilledAt)
                /\ last'[1].saved <=> (Cardinality(FilledAt) >= 1)
                /\ IF last'[1].saved
                   THEN load_rows_from_csv(csv') = rows'
                   ELSE csv' = csv

\* C20: the backfill geocodes exactly the rows that lack a coordinate and have
\* an address, one call each; every other row is left as it is; a row whose
\* address is not found keeps its coordinates as they were; the value returned
\* is the number of rows filled, and the file is written if and only if that
\* number is at least 1; a row that was filled is read back with both of its
\* coordinates, so that a later backfill does not fill it again.
C20_BackfillOnlyMissing == [][C20_BackfillStep]_vars

\* the backfill of the second run returns 0 and writes nothing: the row of
\* address b was filled and written by the first run, and the address of
\* another row is not found
C20_Witness ==
    /\ runs = 2
    /\ pc = "loaded"
    /\ last # None
    /\ last[1].updated = 0
    /\ ~last[1].saved
    /\ \E i \in 1..Len(rows) : rows[i].address = AddrB /\ ~Unresolved(rows[i])
    /\ \E i \in 1..Len(rows) : rows[i].address = AddrA /\ Unresolved(rows[i])

----------------------------------------------------------------------------
(* C22: the accounting of the rows after the first two *)

\* the place rows that are dropped: a coordinate absent, or out of range
\* after the offset
SkippedPlaceRowsAt == PlaceRowsAt \ KeptPlaceRowsAt

\* C22: every row after the first two is counted once: rows_total is the
\* number of these rows and is shape_rows + places_kept + skipped_missing;
\* shape_rows counts the rows named as a member of a shape pair, complete or
\* not, and none of them is a place; places_kept is len(places); and the
\* places are the kept rows, in the order of their rows.
C22_EveryRowCountedOnce ==
    pc = "built" =>
        /\ G.place_stats.rows_total = Len(Others)
        /\ G.place_stats.rows_total =
              G.place_stats.shape_rows + G.place_stats.places_kept
                  + G.place_stats.skipped_missing
        /\ G.place_stats.places_kept = Len(G.places)
        /\ G.place_stats.shape_rows = Len(Others) - Cardinality(PlaceRowsAt)
        /\ G.place_stats.skipped_missing = Cardinality(SkippedPlaceRowsAt)
        /\ Len(G.places) = Cardinality(KeptPlaceRowsAt)
        /\ \A k \in 1..Len(G.places) :
              LET r == Others[NthKept(k)]
              IN  /\ ~IsShapeRow(r)
                  /\ r.raw_name # EmptyText => G.places[k].name = r.raw_name
                  /\ G.places[k].desc = r.desc
                  /\ G.places[k].website = r.website
                  /\ Some([lat |-> G.places[k].lat, lng |-> G.places[k].lng]) = RowAdj(r)

\* one row of each sort: a lower-right row without its upper-left row, with
\* coordinates, counted as a shape row; a row without coordinates skipped;
\* and a row kept
C22_Witness ==
    /\ pc = "built"
    /\ Len(Others) = 3
    /\ G.place_stats.shape_rows = 1
    /\ G.place_stats.skipped_missing = 1
    /\ G.place_stats.places_kept = 1
    /\ \E i \in 1..3 : IsShapeRow(Others[i]) /\ ~Unresolved(Others[i])
    /\ Len(G.shape_warnings) = 1
    /\ G.shapes = <<>>

----------------------------------------------------------------------------
(* C23: the legend and the markers *)

\* the colors of the markers drawn, in lower case
DrawnColors == {Lower(V.markers[m].color) : m \in 1..Len(V.markers)}

\* C23: the legend holds the mixed color #f59e0b exactly when the map draws a
\* marker in the mixed color #F59E0B, and every other color of the legend is
\* the color of a marker drawn.
C23_LegendAgreesWithMap ==
    pc = "rendered" =>
        /\ (LEGEND_MIXED \in V.legend) <=> (Lower(COLOR_MIXED) \in DrawnColors)
        /\ \A c \in V.legend \ {LEGEND_MIXED} : c \in DrawnColors

----------------------------------------------------------------------------
(* C21: the genre filter and the shapes toggle *)

\* what st.session_state holds, once the page is rendered
Selected == session[1].selected_genres

\* one of "/", the full-width slash, the middle dot, the ideographic comma,
\* ",", "|" and the full-width bar
IsGenreSep(c) == c \in {"/", "U+FF0F", "U+30FB", "U+3001", ",", "|", "U+FF5C"}

\* the pieces of a genre text between its separators
GenrePieces(g) ==
    {SubSeq(g, i, j) : i \in 1..(Len(g) + 1), j \in 0..Len(g)} \cap
    {SubSeq(g, ij[1], ij[2]) :
        ij \in {x \in (1..(Len(g) + 1)) \X (0..Len(g)) :
                   /\ x[1] <= x[2]
                   /\ \A k \in x[1]..x[2] : ~IsGenreSep(g[k])
                   /\ (x[1] = 1 \/ IsGenreSep(g[x[1] - 1]))
                   /\ (x[2] = Len(g) \/ IsGenreSep(g[x[2] + 1]))}}

\* the genre tags of a genre text: its pieces without the spaces around
\* them, the empty ones left out; the unset tag when there is none
TagsOf(g) ==
    IF {Strip(x) : x \in GenrePieces(g)} \ {EmptyText} = {}
    THEN {GENRE_UNSET}
    ELSE {Strip(x) : x \in GenrePieces(g)} \ {EmptyText}

\* the places that have a selected tag
ShownAt == {i \in 1..Len(G.places) : TagsOf(G.places[i].genre) \cap Selected # {}}

\* the k-th of them, in the order of the places
NthShown(k) == CHOOSE i \in ShownAt : Cardinality({j \in ShownAt : j <= i}) = k

\* C21: the places handed to the map are the places with at least one genre
\* tag in the selected set, in their order, the genre being split at any of
\* the seven separators and an empty genre being the one unset tag; on the
\* first render every place is handed over, with an empty selection none is;
\* the shapes handed over are all the shapes or none, as show_shapes says,
\* and show_shapes has no part in the places.
C21_ShownIffTagSelected ==
    pc = "rendered" =>
        /\ Len(V.places) = Cardinality(ShownAt)
        /\ \A k \in 1..Len(V.places) : V.places[k] = G.places[NthShown(k)]
        /\ V.shapes = IF session[1].show_shapes THEN G.shapes ELSE <<>>
        /\ runs = 1 => (V.places = G.places /\ V.shapes = G.shapes)
        /\ Selected = {} => V.places = <<>>
        /\ Len(V.markers) = IF V.places = <<>> THEN 0 ELSE 1

\* with the curry tag alone selected, the place of genre men/curry is on
\* the map and the place of genre sushi, kaisen is not
C21_Witness ==
    /\ pc = "rendered"
    /\ runs = 2
    /\ Selected = {TagCurry}
    /\ Len(G.places) = 2
    /\ G.places[1].genre = TagSushi \o <<"U+30FB">> \o TagKaisen
    /\ G.places[2].genre = TagMen \o <<"/">> \o TagCurry
    /\ V.places = <<G.places[2]>>
    /\ V.shapes # <<>>

====
